---- MODULE Spec2Model ----
(***************************************************************************)
(* Model of the energy decision-support front end (Attachment_DSS):        *)
(*   - dashboard.js : classifyScore, DecisionAgent.analyze,                *)
(*                    updateDashboard, the recommendation wizard           *)
(*                    (selWiz / resetWiz / procWiz) and the older          *)
(*                    questionnaire (handleSectionSelect / handleAnswer);  *)
(*   - map.js       : orchestrateSpatialAnalysis (point analysis),         *)
(*                    fetchAndZoomState, triggerGPSOrchestrator;           *)
(*   - layerManager.js : initLayers.                                       *)
(* The repository holds several builds of each file.  dashboard.js:        *)
(*   "Q" = src/unnamed/part_004            (gauges + questionnaire)        *)
(*   "A" = src/unnamed/part_005 lines 1-203   (DecisionAgent + wizard)     *)
(*   "B" = src/unnamed/part_005 lines 204-384 (DecisionAgent + wizard)     *)
(* The variable dashBuild says which build is loaded; it never changes.    *)
(* map.js likewise (the variable mapBuild):                                *)
(*   "M1" = src/frontend/js/map.js lines 1-139                             *)
(*   "M2" = src/frontend/js/map.js lines 140-389                           *)
(*   "P1" = src/unnamed/part_000 lines 1-228   (click handler in initMap)  *)
(*   "P2" = src/unnamed/part_000 lines 229-448 (townData)                  *)
(* layerManager.js (the variable layerBuild):                              *)
(*   "L1" = src/frontend/js/layerManager.js (part_002 is the same text)    *)
(*   "L2" = src/unnamed/part_001               (bundled fallback)          *)
(*   "L3" = src/unnamed/part_003 lines 1-134   (independent slots)         *)
(*   "L4" = src/unnamed/part_003 lines 135-205 (boundaries only)           *)
(* Numbers (scores, slopes) are fixed-point integers counting 1/Scale.     *)
(* A JavaScript value that may be undefined/null is <<>> (absent) or <<v>>.*)
(* The characters x and 3 stand for the source's multiplication sign and   *)
(* superscript three in the recommendation strings.                        *)
(***************************************************************************)
EXTENDS Integers, Sequences, FiniteSets, TLC

VARIABLES
  dashBuild,      \* which dashboard.js build is loaded: "Q", "A" or "B"
  arg,            \* the record a pending updateDashboard call will be handed
  lastData,       \* the record updateDashboard was last called with
  agentInsight,   \* #agent-insight: the advisory DecisionAgent.analyze produced
  solarLabel,     \* the solar gauge's centre label (classifyScore), build Q
  windLabel,      \* the wind gauge's centre label (classifyScore), build Q
  wizardSuggestion, \* #wizard-suggestion: the use the site report proposes, build B
  wizardState,    \* builds A/B: [section, step, data, loc]
  wizView,        \* builds A/B: #wizard-step-content shows menu/question/done
  wizResults,     \* builds A/B: #wizard-results: [hidden, model, context]
  currentSection, \* build Q: questionnaire section, "null" when none
  currentQNum,    \* build Q: questionnaire question number
  answers,        \* build Q: the answers object, keys q1 q2 q3 q7
  qForm,          \* build Q: #questionnaire-form shows none/selector/question/empty
  qResults,       \* build Q: #questionnaire-results: <<>> or <<message>>
  path,           \* history: the answers submitted since the session started
  memo,           \* history: <<m>>, one earlier terminal recommendation, or <<>>
  lastOp,         \* history: the wizard operation that ran last, with its input
  reqs,           \* map.js: the activations of orchestrateSpatialAnalysis
  issued,         \* map.js: how many point analyses were started
  activeMarker,   \* map.js: the request whose marker is on the map, 0 if none
  popup,          \* map.js: the marker the popup is bound to, the request it shows
  loadingShown,   \* #loading is displayed
  statusText,     \* #search-status
  mapBuild,       \* which map.js build is loaded: "M1", "M2", "P1" or "P2"
  regs,           \* map.js: the activations of fetchAndZoomState
  highlightLayer, \* map.js: the boundary feature highlighted on the map
  mapView,        \* map.js: what the map view was last set to
  gps,            \* navigator.geolocation and the pending GPS callbacks
  pageFault,      \* what makes updateDashboard throw on this page, or "none"
  layerBuild,     \* which layerManager.js build is loaded: "L1" .. "L4"
  layerInit,      \* layerManager.js: the activation of initLayers
  statesOnMap,    \* the administrative boundary layer is on the map
  mode            \* the mode switchMode was last called with

dashVars == <<agentInsight, solarLabel, windLabel, lastData, wizardSuggestion>>
wizVars == <<wizardState, wizView, wizResults>>
qVars == <<currentSection, currentQNum, answers, qForm, qResults>>
histVars == <<path, memo, lastOp>>
mapVars == <<reqs, issued, activeMarker, popup, loadingShown, statusText,
             mapBuild, regs, highlightLayer, mapView, gps>>

layerVars == <<layerBuild, layerInit, statesOnMap, mode>>

vars ==
  <<dashBuild, pageFault, arg, dashVars, wizVars, qVars, histVars, mapVars,
    layerVars>>

----------------------------------------------------------------------------
(* Bounds of the model *)

\* resolution of the fixed-point numbers: a score v stands for v / Scale
Scale == 4
\* scores range over -LowScore .. HighScore (whole units), slopes over 0 .. HighSlope
LowScore == 2
HighScore == 11
HighSlope == 17

Scores == (0 - LowScore * Scale) .. (HighScore * Scale)
Slopes == 0 .. (HighSlope * Scale)
Absent == <<>>
Some(v) == <<v>>

\* JavaScript  x || 0  on a number-or-undefined field
OrZero(x) == IF x = Absent THEN 0 ELSE x[1]
\* JavaScript  x ?? 0
NullishZero(x) == IF x = Absent THEN 0 ELSE x[1]

----------------------------------------------------------------------------
(* dashboard.js build Q: classifyScore *)

classifyScore_Incl(value) ==
  IF value = Absent THEN "No data"
  ELSE LET v == value[1] IN
       IF v <= 2 * Scale THEN "Lowest Potential"
       ELSE IF v <= 4 * Scale THEN "Low Potential"
       ELSE IF v <= 6 * Scale THEN "Moderate Potential"
       ELSE IF v <= 8 * Scale THEN "High Potential"
       ELSE "Highest Potential"

classifyScore_Clamp(value) ==
  IF value = Absent THEN "No data"
  ELSE LET v == value[1] IN
       IF v < 0 THEN "No data"
       ELSE IF v < 2 * Scale THEN "Lowest Potential"
       ELSE IF v < 4 * Scale THEN "Low Potential"
       ELSE IF v < 6 * Scale THEN "Moderate Potential"
       ELSE IF v < 8 * Scale THEN "High Potential"
       ELSE IF v <= 10 * Scale THEN "Highest Potential"
       ELSE "No data"

classifyScore(value) ==
  IF value = Absent THEN "No data"
  ELSE LET v == value[1] IN
       IF v < 2 * Scale THEN "Lowest Potential"
       ELSE IF v < 4 * Scale THEN "Low Potential"
       ELSE IF v < 6 * Scale THEN "Moderate Potential"
       ELSE IF v < 8 * Scale THEN "High Potential"
       ELSE "Highest Potential"

\* updateGauge: numeric = Number(value ?? 0); label = classifyScore(numeric).label
updateGauge(value) == classifyScore(Some(NullishZero(value)))

----------------------------------------------------------------------------
(* dashboard.js builds A and B: DecisionAgent *)

slopeLimit == 15

\* the advisory is [kind, place]: place is the region name the text quotes
Advisory(kind, place) == [kind |-> kind, place |-> place]
NoAdvisory == Advisory("none", "")

analyzeA(data) ==
  LET s == OrZero(data.solar_mean_score)
      slope == OrZero(data.slope)
  IN  IF slope > slopeLimit * Scale THEN Advisory("Constraint", "")
      ELSE IF 2 * s >= 17 * Scale THEN Advisory("Prime Site", data.state_name)
      ELSE IF s >= 7 * Scale THEN Advisory("High Potential", "")
      ELSE IF 2 * s >= 9 * Scale THEN Advisory("Moderate", "")
      ELSE Advisory("Low Resource", "")

analyzeB(data) ==
  LET s == OrZero(data.solar_mean_score)
      slope == OrZero(data.slope)
  IN  IF slope > slopeLimit * Scale THEN Advisory("Constraint", "")
      ELSE IF s >= 8 * Scale
        THEN Advisory("Prime (8-10)",
                      IF data.state_name \in {"undefined", ""} THEN "this area"
                      ELSE data.state_name)
      ELSE IF s >= 6 * Scale THEN Advisory("High (6-8)", "")
      ELSE IF s >= 4 * Scale THEN Advisory("Moderate (4-6)", "")
      ELSE Advisory("Low Potential (0-4)", "")

analyze_GateAtLimit(build, data) ==
  IF OrZero(data.slope) >= slopeLimit * Scale THEN Advisory("Constraint", "")
  ELSE IF build = "A" THEN analyzeA(data) ELSE analyzeB(data)

\* analyze with the declared weights applied: the score classified is
\* 0.7 solar + 0.3 wind
analyze_Weighted(build, data) ==
  LET c == (7 * OrZero(data.solar_mean_score)
              + 3 * OrZero(data.wind_mean_score)) \div 10
      d == [data EXCEPT !.solar_mean_score = Some(c)]
  IN  IF build = "A" THEN analyzeA(d) ELSE analyzeB(d)

analyze(build, data) == IF build = "A" THEN analyzeA(data) ELSE analyzeB(data)

----------------------------------------------------------------------------
(* dashboard.js builds A and B: the recommendation wizard *)

Sections == {"water-pumping", "refrigeration", "drying", "cooking"}
WizSteps == {1, 2, 3, 7}
NoAnswers == [st \in WizSteps |-> "undefined"]

\* a wizardState object literal without a loc property reads loc as undefined
WizardState(section, step, data, loc) ==
  [section |-> section, step |-> step, data |-> data, loc |-> loc]

Context(text, loc) == [text |-> text, loc |-> loc]
NoContext == Context("", "")
Results(hidden, model, context) ==
  [hidden |-> hidden, model |-> model, context |-> context]

\* the option values wizQ renders for the current question (renderWizardStep)
wizOptions(build, s, st) ==
  IF s = "water-pumping" THEN
    IF st = 1 THEN {"surface", "underground"}
    ELSE IF st = 2 THEN
      IF build = "A" THEN {"less-30", "31-40", "61-70"}
      ELSE {"less-30", "31-40", "41-50", "51-60", "61-70"}
    ELSE IF st \in {3, 7} THEN
      IF build = "A" THEN {"1", "12"} ELSE {"1", "4", "12"}
    ELSE {}
  ELSE IF s = "refrigeration" THEN {"less-55", "51-130", "131-240"}
  ELSE IF s = "drying" THEN {"passive", "active"}
  ELSE IF s = "cooking" THEN
    IF st = 1 THEN {"single", "double"} ELSE {"yes", "no"}
  ELSE {}

\* the option values showQuestion renders (build Q), without the empty "Select"
showQuestion(section, qNum) ==
  IF section = "water-pumping" THEN
    IF qNum = 1 THEN {"surface", "underground"}
    ELSE IF qNum = 2 THEN {"less-30", "31-40", "41-50", "51-60", "61-70"}
    ELSE IF qNum = 3 THEN {"1", "2", "3"}
    ELSE IF qNum = 7 THEN {"4", "12"}
    ELSE {}
  ELSE IF section = "refrigeration" THEN
    IF qNum = 1 THEN {"less-55", "51-130", "131-240"} ELSE {}
  ELSE IF section = "drying" THEN
    IF qNum = 1 THEN {"passive", "active"} ELSE {}
  ELSE IF section = "cooking" THEN
    IF qNum = 1 THEN {"single", "double"}
    ELSE IF qNum = 2 THEN {"yes", "no"}
    ELSE {}
  ELSE {}

\* the answers a caller of procWiz may submit at a question: every option
\* some build of the wizard defines for it
AnswerVals(s, st) ==
  wizOptions("A", s, st) \cup wizOptions("B", s, st) \cup showQuestion(s, st)

\* what one procWiz call decides: finish (finishWiz(model, context)) or go on
Finish(model, context) ==
  [fin |-> TRUE, step |-> 0, model |-> model, context |-> context]
GoTo(step) == [fin |-> FALSE, step |-> step, model |-> "", context |-> NoContext]

procWizA(ws, val) ==
  LET s == ws.section
      st == ws.step
      d == [ws.data EXCEPT ![st] = val]
  IN
  IF s = "water-pumping" THEN
    IF st = 1 THEN
      IF val = "surface"
        THEN Finish("Model: DHFS300 (1500W Motor; PV 6x335W)",
                    Context("Optimized for surface points in", ws.loc))
        ELSE GoTo(2)
    ELSE IF st = 2 THEN
      IF val = "31-40" THEN Finish("Model: SUNFLO-B 500C (500W; PV 4x200W)",
                                   Context("Max 6m3/day discharge.", ""))
      ELSE IF val = "41-50" THEN Finish("Model: SUNFLO-A 270H (270W; PV 4x200W)",
                                        Context("Max 3m3/day discharge.", ""))
      ELSE IF val = "51-60" THEN Finish("Model: SUNFLO-S 300 (300W; PV 2x200W)",
                                        Context("Max 3m3/day discharge.", ""))
      ELSE IF val = "61-70" THEN GoTo(7)
      ELSE GoTo(3)
    ELSE IF st = 3 THEN
      IF val = "1" THEN Finish("Model: SUNFLO-S 150 (Motor 120W)", NoContext)
      ELSE IF val = "2" THEN Finish("Model: SUNFLO-A 150H (Motor 150W)", NoContext)
      ELSE Finish("Model: SUNFLO-B 120H (Motor 120W)", NoContext)
    ELSE IF st = 7 THEN
      IF val = "12" THEN Finish("Model: SUNFLO-B 1000C (1000W)", NoContext)
      ELSE Finish("Model: SUNFLO-A 600H (600W)", NoContext)
    ELSE GoTo(st)
  ELSE IF s = "refrigeration" THEN
    IF val = "less-55"
      THEN Finish("SUNFRIDGE 55", Context("80W; Dim: 430x230x315mm", ""))
    ELSE IF val = "51-130"
      THEN Finish("SUNFRIDGE 130", Context("128W; Dim: 513x530x585mm", ""))
    ELSE Finish("SUNFRIDGE 240", Context("150W; Dim: 993x516x594mm", ""))
  ELSE IF s = "drying" THEN
    IF val = "passive" THEN Finish("Supplier: Grekkon Limited, Kenya", NoContext)
    ELSE Finish("Supplier: Aqua Hub Kenya", NoContext)
  ELSE IF s = "cooking" THEN
    IF st = 1 THEN GoTo(2)
    ELSE IF d[1] = "single" THEN
      IF val = "yes"
        THEN Finish("Single Induction (400W Panel) + SCODE 6L Pressure Cooker",
                    NoContext)
        ELSE Finish("Single Induction (400W Panel)", NoContext)
    ELSE
      IF val = "yes"
        THEN Finish("Double Induction (800W Panel) + SCODE 6L Pressure Cooker",
                    NoContext)
        ELSE Finish("Double Induction (800W Panel)", NoContext)
  ELSE GoTo(st)

procWizB(ws, val) ==
  LET s == ws.section
      st == ws.step
      d == [ws.data EXCEPT ![st] = val]
  IN
  IF s = "water-pumping" THEN
    IF st = 1 THEN
      IF val = "surface"
        THEN Finish("Model: DHFS300 (1500W; PV 6x335W)",
                    Context("Optimized for surface water points in", ws.loc))
        ELSE GoTo(2)
    ELSE IF st = 2 THEN
      IF val = "31-40"
        THEN Finish("Model: SUNFLO-B 500C (500W; PV 4x200W; Max 6m3/day)", NoContext)
      ELSE IF val = "41-50"
        THEN Finish("Model: SUNFLO-A 270H (270W; PV 4x200W; Max 3m3/day)", NoContext)
      ELSE IF val = "51-60"
        THEN Finish("Model: SUNFLO-S 300 (300W; PV 2x200W; Max 3m3/day)", NoContext)
      ELSE IF val = "61-70" THEN GoTo(7)
      ELSE GoTo(3)
    ELSE IF st = 3 THEN
      IF val = "1" THEN Finish("Model: SUNFLO-S 150", NoContext)
      ELSE IF val = "2" THEN Finish("Model: SUNFLO-A 150H", NoContext)
      ELSE Finish("Model: SUNFLO-B 120H", NoContext)
    ELSE IF st = 7 THEN
      IF val = "12" THEN Finish("Model: SUNFLO-B 1000C (Motor 1000W)", NoContext)
      ELSE Finish("Model: SUNFLO-A 600H (Motor 600W)", NoContext)
    ELSE GoTo(st)
  ELSE IF s = "refrigeration" THEN
    IF val = "less-55"
      THEN Finish("Model: SUNFRIDGE 55 (80W; 430x230x315mm)", NoContext)
    ELSE IF val = "51-130"
      THEN Finish("Model: SUNFRIDGE 130 (128W; 513x530x585mm)", NoContext)
    ELSE Finish("Model: SUNFRIDGE 240 (150W; 993x516x594mm)", NoContext)
  ELSE IF s = "drying" THEN
    IF val = "passive"
      THEN Finish("Supplier: Grekkon Ltd, Kenya",
                  Context("Agri-product dryer configuration.", ""))
      ELSE Finish("Supplier: Aqua Hub Kenya",
                  Context("Agri-product dryer configuration.", ""))
  ELSE IF s = "cooking" THEN
    IF st = 1 THEN GoTo(2)
    ELSE IF d[1] = "single" THEN
      IF val = "yes"
        THEN Finish("Single Induction (Athel Tech; 400W Panel) + 6L Pressure Cooker (SCODE, Kenya)",
                    NoContext)
        ELSE Finish("Single Induction (Athel Tech; 400W Panel)", NoContext)
    ELSE
      IF val = "yes"
        THEN Finish("Double Induction (Athel Tech; 800W Panel) + 6L Pressure Cooker (SCODE, Kenya)",
                    NoContext)
        ELSE Finish("Double Induction (Athel Tech; 800W Panel)", NoContext)
  ELSE GoTo(st)

procWiz_SkipDeep(build, ws, val) ==
  LET o == IF build = "A" THEN procWizA(ws, val) ELSE procWizB(ws, val)
  IN  IF ~o.fin /\ o.step = 7 THEN GoTo(3) ELSE o

procWiz_DefaultFirst(build, ws, val) ==
  LET o == IF build = "A" THEN procWizA(ws, val) ELSE procWizB(ws, val)
  IN  IF ws.section = "water-pumping" /\ ws.step \in {3, 7} /\ val \in {"3", "4"}
        THEN IF build = "A" THEN procWizA(ws, "1") ELSE procWizB(ws, "1")
        ELSE o

procWiz_FridgeOffByOne(build, ws, val) ==
  LET o == IF build = "A" THEN procWizA(ws, val) ELSE procWizB(ws, val)
  IN  IF ws.section = "refrigeration" /\ val = "51-130"
        THEN IF build = "A" THEN procWizA(ws, "131-240") ELSE procWizB(ws, "131-240")
        ELSE o

procWiz_AskAgain(build, ws, val) ==
  IF ws.section = "cooking" /\ ws.step = 2 /\ val = "no" THEN GoTo(1)
  ELSE IF build = "A" THEN procWizA(ws, val) ELSE procWizB(ws, val)

\* window.procWiz: the decision of one call, by the build that is loaded
procWiz(build, ws, val) ==
  IF build = "A" THEN procWizA(ws, val) ELSE procWizB(ws, val)

----------------------------------------------------------------------------
(* dashboard.js build Q: the questionnaire *)

NoQAnswers == [q1 |-> "undefined", q2 |-> "undefined",
               q3 |-> "undefined", q7 |-> "undefined"]

ShowResults(message) == [kind |-> "results", qNum |-> 0, message |-> message]
NextQuestion(qNum) == [kind |-> "next", qNum |-> qNum, message |-> ""]
NoEffect == [kind |-> "none", qNum |-> 0, message |-> ""]

\* window.handleAnswer: what one call decides for the selected value val
handleAnswer(section, qNum, val) ==
  IF section = "water-pumping" THEN
    IF qNum = 1 THEN
      IF val = "surface"
        THEN ShowResults("Recommended pump model: DHFS300 (motor rating 1500W; PV module 6x335W)")
      ELSE IF val = "underground" THEN NextQuestion(2)
      ELSE NoEffect
    ELSE IF qNum = 2 THEN
      IF val = "less-30" THEN NextQuestion(3)
      ELSE IF val = "31-40"
        THEN ShowResults("Recommended pump model: SUNFLO-B 500C (motor rating 500 W; PV module 4x200W) (maximum daily discharge is 6m3)")
      ELSE IF val = "41-50"
        THEN ShowResults("Recommended pump model: SUNFLO-A 270H (motor rating 270W; PV module 4x200W) (maximum daily discharge is 3m3)")
      ELSE IF val = "51-60"
        THEN ShowResults("Recommended pump model: SUNFLO-S 300 (motor rating 300W; PV module 2x200W) (maximum daily discharge is 3m3)")
      ELSE IF val = "61-70" THEN NextQuestion(7)
      ELSE NoEffect
    ELSE IF qNum = 3 THEN
      IF val = "1"
        THEN ShowResults("Recommended pump model: SUNFLO-S 150 (motor rating 120W; PV module 1x200W)")
      ELSE IF val = "2"
        THEN ShowResults("Recommended pump model: SUNFLO-A 150H (motor rating 150W; PV module 1x200W)")
      ELSE IF val = "3"
        THEN ShowResults("Recommended pump model: SUNFLO-B 120H (motor rating 120W; PV module 1x200W)")
      ELSE ShowResults("")
    ELSE IF qNum = 7 THEN
      IF val = "4"
        THEN ShowResults("Recommended pump model: SUNFLO-A 600H (motor rating 600W; PV module 4x200W)")
      ELSE IF val = "12"
        THEN ShowResults("Recommended pump model: SUNFLO-B 1000C (motor rating 1000W; PV module 8x200W)")
      ELSE ShowResults("")
    ELSE NoEffect
  ELSE IF section = "refrigeration" THEN
    IF qNum = 1 THEN
      IF val = "less-55"
        THEN ShowResults("Recommended freezer model: SUNFRIDGE 55 (power requirement 80W; internal dimension430x230x315)")
      ELSE IF val = "51-130"
        THEN ShowResults("Recommended freezer model: SUNFRIDGE 130 (power requirement 128W; internal dimension 513x530x585)")
      ELSE IF val = "131-240"
        THEN ShowResults("Recommended freezer model: SUNFRIDGE 240 (power requirement 150W; internal dimension 993x516x594)")
      ELSE ShowResults("")
    ELSE NoEffect
  ELSE IF section = "drying" THEN
    IF qNum = 1 THEN
      IF val = "passive" THEN ShowResults("Recommended supplier: Grekkon Limited, Kenya")
      ELSE IF val = "active" THEN ShowResults("Recommended supplier: Aqua Hub Kenya LTD")
      ELSE ShowResults("")
    ELSE NoEffect
  ELSE IF section = "cooking" THEN
    \* question 1 assigns the local variable recommendation, which the call
    \* then drops: question 2 starts again from the empty string
    IF qNum = 1 THEN NextQuestion(2)
    ELSE IF qNum = 2 THEN
      IF val = "yes"
        THEN ShowResults("<br>Recommended for solar electric pressure cooker: SCODE, Kenya (specific configuration including 400W of power requirement and operates on 24 V DC)")
        ELSE ShowResults("")
    ELSE NoEffect
  ELSE NoEffect

\* the answers key a handled question assigns
answerKey(section, qNum) ==
  IF section = "water-pumping" /\ qNum \in {1, 2, 3, 7}
    THEN (IF qNum = 1 THEN "q1" ELSE IF qNum = 2 THEN "q2"
          ELSE IF qNum = 3 THEN "q3" ELSE "q7")
  ELSE IF section \in {"refrigeration", "drying"} /\ qNum = 1 THEN "q1"
  ELSE IF section = "cooking" /\ qNum \in {1, 2}
    THEN (IF qNum = 1 THEN "q1" ELSE "q2")
  ELSE "none"

----------------------------------------------------------------------------
(* dashboard.js: updateDashboard *)

RegionNames == {"Banadir", "Unmapped Region"}

Record(solar, wind, slope, name, req) ==
  [solar_mean_score |-> solar, wind_mean_score |-> wind, slope |-> slope,
   state_name |-> name, req |-> req]

\* window.updateDashboard(data, mode) with a data object: builds A and B store
\* the region name in the wizard session and publish the advisory; build Q
\* classifies the two scores on the gauges.  Every build hides #loading.
\* The function is async: a statement of it that throws rejects the promise
\* it returned and leaves the statements after it undone.  pageFault names
\* the statement that throws on this page: "early", the first write after
\* #loading is hidden (builds A, B: #agent-insight is missing; build Q:
\* #report-sub is missing); "late", a write after the solar gauge (builds A,
\* B: #wizard-suggestion is missing; build Q: the wind gauge has no label
\* plugin).
PageFaults == {"none", "early", "late"}

\* build B, site mode: the use #wizard-suggestion proposes; an undefined
\* score compares false
suggest(data) ==
  IF data.solar_mean_score # Absent /\ data.solar_mean_score[1] > 7 * Scale
    THEN "Water Pumping" ELSE "low-power"

updateDashboard(data) ==
  /\ lastData' = <<data>>
  /\ loadingShown' = FALSE
  /\ IF dashBuild = "Q"
       THEN /\ solarLabel' = IF pageFault = "early" THEN solarLabel
                             ELSE updateGauge(data.solar_mean_score)
            /\ windLabel' = IF pageFault = "none"
                              THEN updateGauge(data.wind_mean_score)
                              ELSE windLabel
            /\ UNCHANGED <<agentInsight, wizardState>>
       ELSE /\ wizardState' = [wizardState EXCEPT !.loc = data.state_name]
            /\ agentInsight' = IF pageFault = "early" THEN agentInsight
                               ELSE analyze(dashBuild, data)
            /\ UNCHANGED <<solarLabel, windLabel>>
  /\ wizardSuggestion' = IF dashBuild = "B" /\ pageFault = "none"
                           THEN suggest(data) ELSE wizardSuggestion

----------------------------------------------------------------------------
(* History the properties read; no operation of the program reads it *)

Op(op, section, step, val, loc) ==
  [op |-> op, section |-> section, step |-> step, val |-> val, loc |-> loc]
NoOp == Op("none", "null", 0, "", "")

Memo(section, answered, model, context, loc) ==
  [section |-> section, path |-> answered, model |-> model,
   context |-> context, loc |-> loc]

----------------------------------------------------------------------------
(* Wizard operations, builds A and B *)

\* window.selWiz(section): a menu button starts a session
selWiz(section) ==
  /\ dashBuild \in {"A", "B"}
  /\ wizView = "menu"
  /\ wizardState' = WizardState(section, 1, NoAnswers, "undefined")
  /\ wizResults' = [wizResults EXCEPT !.hidden = TRUE]
  /\ wizView' = "question"
  /\ path' = <<>>
  /\ lastOp' = Op("selWiz", section, 1, "", "")
  /\ UNCHANGED <<layerVars, dashBuild, pageFault, arg, dashVars, qVars, memo, mapVars>>

\* the session that just ended with a recommendation, as the history keeps it
Finished ==
  Memo(wizardState.section, path, wizResults.model, wizResults.context,
       lastOp.loc)

resetWiz_KeepAnswers ==
  /\ dashBuild \in {"A", "B"}
  /\ wizardState' = [wizardState EXCEPT !.section = "null", !.step = 1]
  /\ wizResults' = [wizResults EXCEPT !.hidden = TRUE]
  /\ wizView' = "menu"
  /\ path' = <<>>
  /\ lastOp' = Op("resetWiz", "null", 0, "", "")
  /\ UNCHANGED <<layerVars, dashBuild, pageFault, arg, dashVars, qVars, mapVars>>

\* window.resetWiz: Back / New Search
resetWiz ==
  /\ dashBuild \in {"A", "B"}
  /\ wizardState' = WizardState("null", 1, NoAnswers, "undefined")
  /\ wizResults' = [wizResults EXCEPT !.hidden = TRUE]
  /\ wizView' = "menu"
  /\ path' = <<>>
  /\ lastOp' = Op("resetWiz", "null", 0, "", "")
  /\ UNCHANGED <<layerVars, dashBuild, pageFault, arg, dashVars, qVars, mapVars>>

\* window.procWiz(val): an answer button of the question on show
ProcWiz(val) ==
  /\ dashBuild \in {"A", "B"}
  /\ wizView = "question"
  /\ val \in AnswerVals(wizardState.section, wizardState.step)
  /\ LET o == procWiz(dashBuild, wizardState, val)
         st == wizardState.step
     IN  /\ wizardState' = [wizardState EXCEPT !.data[st] = val,
                                               !.step = IF o.fin THEN @ ELSE o.step]
         /\ wizView' = IF o.fin THEN "done" ELSE "question"
         /\ wizResults' = IF o.fin THEN Results(FALSE, o.model, o.context)
                          ELSE wizResults
  /\ path' = Append(path, val)
  /\ lastOp' = Op("procWiz", wizardState.section, wizardState.step, val,
                wizardState.loc)
  /\ UNCHANGED <<layerVars, dashBuild, pageFault, arg, dashVars, qVars, memo, mapVars>>

----------------------------------------------------------------------------
(* Questionnaire operations, build Q *)

\* resetQuestionnaire: the Restart button, and startQuestionnaire's body
resetQuestionnaire ==
  /\ dashBuild = "Q"
  /\ currentSection' = "null"
  /\ currentQNum' = 1
  /\ answers' = NoQAnswers
  /\ qForm' = "selector"
  /\ qResults' = <<>>
  /\ path' = <<>>
  /\ lastOp' = Op("resetQuestionnaire", "null", 0, "", "")
  /\ UNCHANGED <<layerVars, dashBuild, pageFault, arg, dashVars, wizVars, memo, mapVars>>

\* window.handleSectionSelect: Start with the selector's value ("" = Select)
handleSectionSelect(section) ==
  /\ dashBuild = "Q"
  /\ qForm = "selector"
  /\ currentSection' = section
  /\ IF section # ""
       THEN currentQNum' = 1 /\ qForm' = "question"
       ELSE UNCHANGED <<currentQNum, qForm>>
  /\ path' = <<>>
  /\ lastOp' = Op("handleSectionSelect", section, 1, "", "")
  /\ UNCHANGED <<layerVars, dashBuild, pageFault, arg, dashVars, wizVars, answers, qResults, memo, mapVars>>

\* window.handleAnswer: Next with the question's selected value ("" = Select)
HandleAnswer(val) ==
  /\ dashBuild = "Q"
  /\ qForm = "question"
  /\ val \in showQuestion(currentSection, currentQNum) \cup {""}
  /\ LET o == handleAnswer(currentSection, currentQNum, val)
         k == answerKey(currentSection, currentQNum)
     IN  /\ answers' = IF k = "none" THEN answers ELSE [answers EXCEPT ![k] = val]
         /\ currentQNum' = IF o.kind = "next" THEN o.qNum ELSE currentQNum
         /\ qForm' = IF o.kind = "results" THEN "empty" ELSE qForm
         /\ qResults' = IF o.kind = "results" THEN <<o.message>> ELSE qResults
  /\ lastOp' = Op("handleAnswer", currentSection, currentQNum, val, "")
  /\ UNCHANGED <<layerVars, dashBuild, pageFault, arg, dashVars, wizVars, currentSection, path, memo, mapVars>>

----------------------------------------------------------------------------
(* Initial state: the page after DOMContentLoaded *)

\* layerManager.js, the activation of initLayers: where it stands (pc), how
\* the two fetches settled, what the response bodies held, whether the page
\* bundles json_FederalStates_1, and the two overlay slots of the result
LayerInit(pc, states, towns, sData, tData, bundled, sLayer, tLayer) ==
  [pc |-> pc, states |-> states, towns |-> towns, statesData |-> sData,
   townsData |-> tData, bundled |-> bundled, statesLayer |-> sLayer,
   townsLayer |-> tLayer]

LayerBuilds == {"L1", "L2", "L3", "L4"}

\* initLayers up to its first await: the tile layers exist, build L1 has sent
\* both fetches, the other builds the boundary fetch only; build L3 starts
\* with both slots holding L.layerGroup()
initLayers(b, bundled) ==
  LayerInit(IF b = "L1" THEN "all" ELSE "states",
            "pending",
            IF b = "L1" THEN "pending" ELSE "unsent",
            "none", "none", bundled,
            IF b = "L3" THEN "empty" ELSE "none",
            IF b = "L3" THEN "empty" ELSE "none")

\* layers.statesLayer of the map page is set: initLayers has resolved and the
\* .then callback has stored its result
layersLoaded == layerInit.pc = "done"

\* switchMode(mode): only build P2 moves the boundary layer, and only when
\* layers.statesLayer is set
switchMode(m) ==
  /\ mode' = m
  /\ statesOnMap' = IF mapBuild = "P2" /\ layersLoaded THEN m = "state"
                    ELSE statesOnMap
  /\ UNCHANGED <<layerBuild, layerInit>>

\* the page of the other specifications: initLayers has been called and its
\* fetches are still out
InitLayersPending ==
  /\ layerBuild = "L1"
  /\ layerInit = initLayers("L1", FALSE)
  /\ statesOnMap = FALSE
  /\ mode = "site"

NoReqs == <<>>
NoPopup == [marker |-> 0, req |-> 0]
NoFeature == "none"
InitialView == [to |-> "initialView", at |-> <<0, 0>>, feature |-> ""]
NoGps ==
  [supported |-> TRUE, asked |-> 0, pending |-> 0, timers |-> 0, fixes |-> <<>>]

InitPage ==
  /\ dashBuild \in {"Q", "A", "B"}
  /\ lastData = <<>>
  /\ agentInsight = NoAdvisory
  /\ solarLabel = "No data"
  /\ windLabel = "No data"
  /\ wizardSuggestion = "none"
  /\ wizardState = WizardState("null", 1, NoAnswers,
                               IF dashBuild = "A" THEN "" ELSE "undefined")
  /\ wizView = "menu"
  /\ wizResults = Results(TRUE, "", NoContext)
  /\ currentSection = "null"
  /\ currentQNum = 1
  /\ answers = NoQAnswers
  /\ qForm = "selector"
  /\ qResults = <<>>
  /\ path = <<>>
  /\ memo = <<>>
  /\ lastOp = NoOp
  /\ reqs = NoReqs
  /\ issued = 0
  /\ activeMarker = 0
  /\ popup = NoPopup
  /\ loadingShown = FALSE
  /\ statusText = ""
  /\ regs = <<>>
  /\ highlightLayer = NoFeature
  /\ mapView = InitialView

----------------------------------------------------------------------------
(* SpecClassify: one record is handed to updateDashboard *)

\* every solar score with every wind score, and every solar score with every slope
ClassifyInputs ==
  LET OptScores == {Absent} \cup {Some(v) : v \in Scores}
      OptSlopes == {Absent} \cup {Some(v) : v \in Slopes}
  IN  { Record(s, w, Absent, "Banadir", 0) : s \in OptScores, w \in OptScores }
      \cup
      { Record(s, w, sl, "Banadir", 0) :
          s \in OptScores, w \in {Absent, Some(3 * Scale)}, sl \in OptSlopes }

InitClassify ==
  /\ InitPage /\ mapBuild = "M2" /\ gps = NoGps /\ pageFault = "none"
  /\ InitLayersPending
  /\ arg \in {<<d>> : d \in ClassifyInputs}

Render ==
  /\ lastData = <<>>
  /\ updateDashboard(arg[1])
  /\ UNCHANGED <<layerVars, dashBuild, pageFault, arg, wizView, wizResults, qVars, histVars,
                 reqs, issued, activeMarker, popup, statusText,
                 mapBuild, regs, highlightLayer, mapView, gps>>

NextClassify == Render

SpecClassify == InitClassify /\ [][NextClassify]_vars

----------------------------------------------------------------------------
(* SpecWizard: the wizard and the questionnaire, with records arriving *)

WizardFeed == { Record(Absent, Absent, Absent, n, 0) : n \in RegionNames }

InitWizard ==
  /\ InitPage /\ mapBuild = "M2" /\ gps = NoGps /\ pageFault = "none"
  /\ InitLayersPending /\ arg = <<>>

Deliver(d) ==
  /\ dashBuild \in {"A", "B"}
  /\ updateDashboard(d)
  /\ UNCHANGED <<layerVars, dashBuild, pageFault, arg, wizView, wizResults, qVars, histVars,
                 reqs, issued, activeMarker, popup, statusText,
                 mapBuild, regs, highlightLayer, mapView, gps>>

\* the history may keep the session a reset ends, when it had finished
Noted == memo' \in IF wizView = "done" THEN {memo, <<Finished>>} ELSE {memo}

NextWizard ==
  \/ \E s \in Sections : selWiz(s)
  \/ resetWiz /\ UNCHANGED memo
  \/ \E v \in UNION {AnswerVals(s, st) : s \in Sections, st \in WizSteps} : ProcWiz(v)
  \/ resetQuestionnaire
  \/ \E s \in Sections \cup {""} : handleSectionSelect(s)
  \/ \E v \in UNION {showQuestion(s, q) : s \in Sections, q \in WizSteps} \cup {""} :
       HandleAnswer(v)
  \/ \E d \in WizardFeed : Deliver(d)

SpecWizard == InitWizard /\ [][NextWizard]_vars

----------------------------------------------------------------------------
(* SpecSessions: wizard sessions of builds A and B one after another, the    *)
(* history keeping one finished session to compare later ones with           *)

SessionFeed == { Record(Absent, Absent, Absent, "Banadir", 0) }

InitSessions == InitWizard /\ dashBuild \in {"A", "B"}

NextSessions ==
  \/ \E s \in Sections : selWiz(s)
  \/ resetWiz /\ Noted
  \/ \E v \in UNION {AnswerVals(s, st) : s \in Sections, st \in WizSteps} : ProcWiz(v)
  \/ \E d \in SessionFeed : Deliver(d)

SpecSessions == InitSessions /\ [][NextSessions]_vars

----------------------------------------------------------------------------
(* map.js: point analysis.  orchestrateSpatialAnalysis (builds M1, M2, P2)   *)
(* and the map click handler of build P1, one activation per call.  An       *)
(* activation runs to its first await at once and is resumed by the browser  *)
(* when what it awaits has settled; activations interleave at their awaits.  *)
(* Coordinates are <<lat, lon>> in 1/10000 degree.                           *)

MaxReq == 2

MapBuilds == {"M1", "M2", "P1", "P2"}

\* an activation: where it waits, what its two fetches gave, what it holds
Request(pc, pixel, state, source, pixelData, result, at, townData) ==
  [pc |-> pc, pixel |-> pixel, state |-> state, source |-> source,
   pixelData |-> pixelData, result |-> result, at |-> at,
   townData |-> townData]

\* a fetch gives a 2xx response, another response, or rejects
FetchOutcomes == {"ok", "notOk", "rejected"}

\* a response body that is not JSON
Malformed == <<"malformed">>

\* the pixel reports the backend may give: solar, wind and slope
PixelBodies ==
  { <<Some(9 * Scale), Some(3 * Scale), Some(2 * Scale)>>,
    <<Some(5 * Scale), Absent, Some(HighSlope * Scale)>> }

\* the state metrics the backend may give: with or without a state_name
StateBodies == { <<"Banadir">>, Absent }

Sources == {"manual", "gps"}

\* where the model's map clicks land
ClickAt == <<20000, 450000>>

\* the features of the towns layer: their position and their properties
Towns ==
  { [at |-> <<31100, 436500>>,
     props |-> [name |-> "Baidoa", pop |-> "750,000", infra |-> "Hospital",
                source_url |-> "https://example.org/baidoa"]],
    [at |-> <<31100, 436500>>,
     props |-> [name |-> "Baidoa", pop |-> "750,000", infra |-> "Hospital",
                source_url |-> "https://example.org/baidoa",
                state_name |-> "Bay"]] }

View(to, at, feature) == [to |-> to, at |-> at, feature |-> feature]

\* orchestrateSpatialAnalysis up to its first await: the mode, #loading, the
\* highlight, the marker, the view and the two fetches
Launch(at, source, townData) ==
  /\ mapBuild # "P1"
  /\ issued < MaxReq
  /\ switchMode("site")
  /\ issued' = issued + 1
  /\ loadingShown' = TRUE
  /\ highlightLayer' = NoFeature
  /\ activeMarker' = issued + 1
  /\ popup' = NoPopup
  /\ mapView' = View("point", at, "")
  /\ reqs' = Append(reqs, Request("all", "pending", "pending", source,
                                  Absent, "none", at, townData))

orchestrateSpatialAnalysis(at, source, townData) ==
  /\ Launch(at, source, townData)
  /\ UNCHANGED <<dashBuild, pageFault, arg, dashVars, wizVars, qVars, histVars,
                 statusText, mapBuild, regs, gps>>

\* build P1, map.on('click') up to its first await: the mode, a popup that
\* says Loading..., the pixel fetch
mapClick(at) ==
  /\ mapBuild = "P1"
  /\ issued < MaxReq
  /\ switchMode("site")
  /\ issued' = issued + 1
  /\ popup' = [marker |-> issued + 1, req |-> 0]
  /\ reqs' = Append(reqs, Request("pixelFetch", "pending", "unsent", "manual",
                                  Absent, "none", at, Absent))
  /\ UNCHANGED <<dashBuild, pageFault, arg, dashVars, wizVars, qVars, histVars,
                 activeMarker, loadingShown, statusText, mapBuild, regs,
                 highlightLayer, mapView, gps>>

\* a click on a town marker: layerManager calls window.orchestrateSpatialAnalysis,
\* which only build P2 exposes
townClick(town) ==
  /\ mapBuild = "P2"
  /\ orchestrateSpatialAnalysis(town.at, "town", <<town.props>>)

\* the browser settles one fetch of an activation
FetchSettles(i, which, outcome) ==
  /\ i \in 1..Len(reqs)
  /\ reqs[i].pc \in {"all", "pixelFetch", "stateFetch"}
  /\ reqs[i][which] = "pending"
  /\ reqs' = [reqs EXCEPT ![i][which] = outcome]
  /\ UNCHANGED <<layerVars, dashBuild, pageFault, arg, dashVars, wizVars, qVars, histVars, issued,
                 activeMarker, popup, loadingShown, statusText, mapBuild,
                 regs, highlightLayer, mapView, gps>>

\* an activation that returned: what its fetches gave is kept, a body that
\* could not be parsed (bad is "pixel" or "state") counted as malformed
Ended(r, result, bad) ==
  Request("done",
          IF bad = "pixel" THEN "malformed" ELSE r.pixel,
          IF bad = "state" THEN "malformed" ELSE r.state,
          r.source, Absent, result, r.at, Absent)

\* the catch block without the finally block: #loading stays as it is
Caught_NoFinally(i, bad) ==
  /\ statusText' =
       IF mapBuild = "M1" THEN "Error: Coordinate outside data domain."
       ELSE IF mapBuild = "M2" THEN "Error: Point lacks valid raster coverage."
       ELSE IF mapBuild = "P2" THEN "Error: Point outside valid coverage."
       ELSE statusText
  /\ agentInsight' = IF mapBuild = "M2" THEN Advisory("OutsideDomain", "")
                     ELSE agentInsight
  /\ loadingShown' = loadingShown
  /\ popup' = IF mapBuild = "P1" /\ popup.marker = i
                THEN [marker |-> i, req |-> i] ELSE popup
  /\ reqs' = [reqs EXCEPT ![i] = Ended(reqs[i], "caught", bad)]
  /\ UNCHANGED <<lastData, solarLabel, windLabel, wizardSuggestion, wizardState>>

\* the catch and finally blocks (build P1: the catch block of the handler)
Caught(i, bad) ==
  /\ statusText' =
       IF mapBuild = "M1" THEN "Error: Coordinate outside data domain."
       ELSE IF mapBuild = "M2" THEN "Error: Point lacks valid raster coverage."
       ELSE IF mapBuild = "P2" THEN "Error: Point outside valid coverage."
       ELSE statusText
  /\ agentInsight' = IF mapBuild = "M2" THEN Advisory("OutsideDomain", "")
                     ELSE agentInsight
  /\ loadingShown' = IF mapBuild = "P1" THEN loadingShown ELSE FALSE
  /\ popup' = IF mapBuild = "P1" /\ popup.marker = i
                THEN [marker |-> i, req |-> i] ELSE popup
  /\ reqs' = [reqs EXCEPT ![i] = Ended(reqs[i], "caught", bad)]
  /\ UNCHANGED <<lastData, solarLabel, windLabel, wizardSuggestion, wizardState>>

\* the state_name of finalData: stateOk says the state response was ok and
\* its body, stateData, was read
StateName(stateOk, stateData) ==
  IF mapBuild = "M1"
    THEN (IF ~stateOk THEN "Unmapped Area"
          ELSE IF stateData = Absent THEN "undefined" ELSE stateData[1])
  ELSE IF mapBuild = "P1"
    THEN (IF ~stateOk \/ stateData = Absent THEN "Unknown" ELSE stateData[1])
  ELSE (IF ~stateOk \/ stateData = Absent THEN "Unmapped Region"
        ELSE stateData[1])

\* { ...pixelData, ...townData, lat, lon, state_name }: the town's properties
\* go over the pixel report's, the state_name given last over both
Overlay(townData, rec) ==
  IF townData = Absent \/ mapBuild # "P2" THEN rec
  ELSE [k \in DOMAIN rec \cup DOMAIN townData[1] |->
          IF k \in {"state_name", "req"} THEN rec[k]
          ELSE IF k \in DOMAIN townData[1] THEN townData[1][k]
          ELSE rec[k]]

\* the hand-off to a dashboard whose exception reaches the caller
HandOff_SyncConsumer(i, pixelData, name) ==
  IF pageFault # "none" THEN Caught(i, "") ELSE
  LET finalData ==
        Overlay(reqs[i].townData,
                Record(pixelData[1], pixelData[2], pixelData[3], name, i))
  IN  /\ updateDashboard(finalData)
      /\ popup' =
           IF mapBuild \in {"M2", "P2"} THEN [marker |-> activeMarker, req |-> i]
           ELSE IF mapBuild = "P1" /\ popup.marker = i
             THEN [marker |-> i, req |-> i]
           ELSE popup
      /\ statusText' =
           IF mapBuild = "M1" THEN "Point Analysis Synchronized."
           ELSE IF mapBuild = "M2" /\ reqs[i].source # "gps"
             THEN "Coordinate analysis synchronized."
           ELSE IF mapBuild = "P2" /\ reqs[i].source # "gps"
             THEN "Data successfully orchestrated."
           ELSE statusText
      /\ reqs' = [reqs EXCEPT ![i] = Ended(reqs[i], "handed", "")]

\* from finalData to the end of the try block, and the finally block
HandOff(i, pixelData, name) ==
  LET finalData ==
        Overlay(reqs[i].townData,
                Record(pixelData[1], pixelData[2], pixelData[3], name, i))
  IN  /\ updateDashboard(finalData)
      /\ popup' =
           IF mapBuild \in {"M2", "P2"} THEN [marker |-> activeMarker, req |-> i]
           ELSE IF mapBuild = "P1" /\ popup.marker = i
             THEN [marker |-> i, req |-> i]
           ELSE popup
      /\ statusText' =
           IF mapBuild = "M1" THEN "Point Analysis Synchronized."
           ELSE IF mapBuild = "M2" /\ reqs[i].source # "gps"
             THEN "Coordinate analysis synchronized."
           ELSE IF mapBuild = "P2" /\ reqs[i].source # "gps"
             THEN "Data successfully orchestrated."
           ELSE statusText
      /\ reqs' = [reqs EXCEPT ![i] = Ended(reqs[i], "handed", "")]

AwaitAll_IgnoreStatus(i) ==
  /\ i \in 1..Len(reqs)
  /\ reqs[i].pc = "all"
  /\ \/ "rejected" \in {reqs[i].pixel, reqs[i].state}
     \/ "pending" \notin {reqs[i].pixel, reqs[i].state}
  /\ IF "rejected" \in {reqs[i].pixel, reqs[i].state}
       THEN Caught(i, "")
       ELSE /\ reqs' = [reqs EXCEPT ![i].pc = "pixelJson"]
            /\ UNCHANGED <<dashVars, wizardState, popup, loadingShown,
                           statusText>>
  /\ UNCHANGED <<layerVars, dashBuild, pageFault, arg, wizView, wizResults, qVars, histVars, issued,
                 activeMarker, mapBuild, regs, highlightLayer, mapView, gps>>

\* Promise.all settles: it rejects as soon as one fetch rejected, else it
\* fulfils when both have; then the pixel response must be ok
AwaitAll(i) ==
  /\ i \in 1..Len(reqs)
  /\ reqs[i].pc = "all"
  /\ \/ "rejected" \in {reqs[i].pixel, reqs[i].state}
     \/ "pending" \notin {reqs[i].pixel, reqs[i].state}
  /\ IF "rejected" \in {reqs[i].pixel, reqs[i].state} \/ reqs[i].pixel # "ok"
       THEN Caught(i, "")
       ELSE /\ reqs' = [reqs EXCEPT ![i].pc = "pixelJson"]
            /\ UNCHANGED <<dashVars, wizardState, popup, loadingShown,
                           statusText>>
  /\ UNCHANGED <<layerVars, dashBuild, pageFault, arg, wizView, wizResults, qVars, histVars, issued,
                 activeMarker, mapBuild, regs, highlightLayer, mapView, gps>>

\* build P1: await fetch(pixel) settles; the response must be ok
AwaitPixel(i) ==
  /\ i \in 1..Len(reqs)
  /\ reqs[i].pc = "pixelFetch"
  /\ reqs[i].pixel # "pending"
  /\ IF reqs[i].pixel # "ok"
       THEN Caught(i, "")
       ELSE /\ reqs' = [reqs EXCEPT ![i].pc = "pixelJson"]
            /\ UNCHANGED <<dashVars, wizardState, popup, loadingShown,
                           statusText>>
  /\ UNCHANGED <<layerVars, dashBuild, pageFault, arg, wizView, wizResults, qVars, histVars, issued,
                 activeMarker, mapBuild, regs, highlightLayer, mapView, gps>>

\* await pixelRes.json() settles; a state response that is not ok is not
\* read; build P1 sends the state fetch now
PixelJson(i, body) ==
  /\ i \in 1..Len(reqs)
  /\ reqs[i].pc = "pixelJson"
  /\ IF body = Malformed THEN Caught(i, "pixel")
     ELSE IF mapBuild = "P1"
       THEN /\ reqs' = [reqs EXCEPT ![i].pc = "stateFetch",
                                    ![i].state = "pending",
                                    ![i].pixelData = <<body>>]
            /\ UNCHANGED <<dashVars, wizardState, popup, loadingShown,
                           statusText>>
     ELSE IF reqs[i].state = "ok"
       THEN /\ reqs' = [reqs EXCEPT ![i].pc = "stateJson",
                                    ![i].pixelData = <<body>>]
            /\ UNCHANGED <<dashVars, wizardState, popup, loadingShown,
                           statusText>>
       ELSE HandOff(i, body, StateName(FALSE, Absent))
  /\ UNCHANGED <<layerVars, dashBuild, pageFault, arg, wizView, wizResults, qVars, histVars, issued,
                 activeMarker, mapBuild, regs, highlightLayer, mapView, gps>>

\* build P1: await fetch(state) settles; a response that is not ok is not read
AwaitState(i) ==
  /\ i \in 1..Len(reqs)
  /\ reqs[i].pc = "stateFetch"
  /\ reqs[i].state # "pending"
  /\ IF reqs[i].state = "rejected" THEN Caught(i, "")
     ELSE IF reqs[i].state = "ok"
       THEN /\ reqs' = [reqs EXCEPT ![i].pc = "stateJson"]
            /\ UNCHANGED <<dashVars, wizardState, popup, loadingShown,
                           statusText>>
       ELSE HandOff(i, reqs[i].pixelData[1], StateName(FALSE, Absent))
  /\ UNCHANGED <<layerVars, dashBuild, pageFault, arg, wizView, wizResults, qVars, histVars, issued,
                 activeMarker, mapBuild, regs, highlightLayer, mapView, gps>>

\* await stateRes.json() settles
StateJson(i, body) ==
  /\ i \in 1..Len(reqs)
  /\ reqs[i].pc = "stateJson"
  /\ IF body = Malformed THEN Caught(i, "state")
     ELSE HandOff(i, reqs[i].pixelData[1], StateName(TRUE, body))
  /\ UNCHANGED <<layerVars, dashBuild, pageFault, arg, wizView, wizResults, qVars, histVars, issued,
                 activeMarker, mapBuild, regs, highlightLayer, mapView, gps>>

Init ==
  /\ InitPage /\ mapBuild \in MapBuilds /\ gps = NoGps /\ arg = <<>>
  /\ InitLayersPending
  /\ pageFault = "none"

Next ==
  \/ \E src \in Sources : orchestrateSpatialAnalysis(ClickAt, src, Absent)
  \/ mapClick(ClickAt)
  \/ \E t \in Towns : townClick(t)
  \/ \E i \in 1..MaxReq, which \in {"pixel", "state"}, o \in FetchOutcomes :
       FetchSettles(i, which, o)
  \/ \E i \in 1..MaxReq : AwaitAll(i)
  \/ \E i \in 1..MaxReq : AwaitPixel(i)
  \/ \E i \in 1..MaxReq, b \in PixelBodies \cup {Malformed} : PixelJson(i, b)
  \/ \E i \in 1..MaxReq : AwaitState(i)
  \/ \E i \in 1..MaxReq, b \in StateBodies \cup {Malformed} : StateJson(i, b)

Spec == Init /\ [][Next]_vars

\* SpecPoint: the same page with at most MaxPoint point analyses
MaxPoint == 1

NextPoint ==
  \/ issued < MaxPoint /\ \E src \in Sources :
                             orchestrateSpatialAnalysis(ClickAt, src, Absent)
  \/ issued < MaxPoint /\ mapClick(ClickAt)
  \/ issued < MaxPoint /\ \E t \in Towns : townClick(t)
  \/ \E i \in 1..MaxReq, which \in {"pixel", "state"}, o \in FetchOutcomes :
       FetchSettles(i, which, o)
  \/ \E i \in 1..MaxReq : AwaitAll(i)
  \/ \E i \in 1..MaxReq : AwaitPixel(i)
  \/ \E i \in 1..MaxReq, b \in PixelBodies \cup {Malformed} : PixelJson(i, b)
  \/ \E i \in 1..MaxReq : AwaitState(i)
  \/ \E i \in 1..MaxReq, b \in StateBodies \cup {Malformed} : StateJson(i, b)

SpecPoint == Init /\ [][NextPoint]_vars

\* a step of an activation that is under way: a fetch it sent settles, or a
\* continuation whose promise has settled is run by the event loop
Settles(i) ==
  \/ \E which \in {"pixel", "state"}, o \in FetchOutcomes :
       FetchSettles(i, which, o)
  \/ AwaitAll(i)
  \/ AwaitPixel(i)
  \/ \E b \in PixelBodies \cup {Malformed} : PixelJson(i, b)
  \/ AwaitState(i)
  \/ \E b \in StateBodies \cup {Malformed} : StateJson(i, b)

\* the fetches settle and the event loop keeps running
SpecLive ==
  Init /\ [][NextPoint]_vars /\ WF_vars(\E i \in 1..MaxReq : Settles(i))

\* the point analyses on a page whose dashboard may throw while it renders
InitConsumer ==
  /\ InitPage /\ mapBuild \in MapBuilds /\ gps = NoGps /\ arg = <<>>
  /\ InitLayersPending
  /\ pageFault \in PageFaults

SpecConsumer == InitConsumer /\ [][NextPoint]_vars

----------------------------------------------------------------------------
(* map.js: fetchAndZoomState, one activation per selection of a region.      *)

MaxRegion == 1

\* an activation: where it waits, the name asked for, what its two fetches
\* gave, the metrics it holds, how it ended, and build P1's 3 s timer
Region(pc, stateName, res, geoRes, data, result, timer) ==
  [pc |-> pc, stateName |-> stateName, res |-> res, geoRes |-> geoRes,
   data |-> data, result |-> result, timer |-> timer]

\* the values the dropdown and the boundary layer hand to fetchAndZoomState;
\* the dropdown's first entry has the empty value
StateNames == {"banadir", "Bay", "Unknown Region", ""}

\* String.prototype.toLowerCase on the names of the model
toLowerCase(str) ==
  IF str \in {"BANADIR", "Banadir", "banadir"} THEN "banadir"
  ELSE IF str \in {"BAY", "Bay", "bay"} THEN "bay"
  ELSE IF str \in {"Unknown Region", "unknown region"} THEN "unknown region"
  ELSE str

\* a JSON body that is an object without the expected members (an error report)
ErrorBody == <<"detail">>

\* the region metrics the backend may give: solar and wind mean score
MetricsBodies == { <<Some(6 * Scale), Some(4 * Scale)>> }

Feature(id, name) == [id |-> id, state_name |-> name]

\* the boundary collections the backend may give (geoData.features)
GeoBodies ==
  { [features |-> << Feature("f0", Absent), Feature("f1", <<"BANADIR">>),
                     Feature("f2", <<"Bay">>) >>],
    [features |-> << Feature("f2", <<"bay">>) >>] }

\* a boundary response that is an error report (no features member), and one
\* that does not parse
GeoErrorBody == [detail |-> "Not Found"]

GeoMalformed == [malformed |-> TRUE]

\* the bodies a response may carry: an ok response the payload, another
\* response an error report; either may fail to parse
BodiesOf(outcome, payloads, error, bad) ==
  (IF outcome = "ok" THEN payloads ELSE {error}) \cup {bad}

\* the lookup with the names compared as they are written
find_CaseSensitive(features, stateName) ==
  LET name(f) == IF f.state_name = Absent THEN "" ELSE f.state_name[1]
      hits == { k \in 1..Len(features) : name(features[k]) = stateName }
  IN  IF hits = {} THEN Absent
      ELSE <<features[CHOOSE k \in hits : \A m \in hits : k <= m]>>

\* geoData.features.find(f => (f.properties.state_name || '').toLowerCase()
\*                            === stateName.toLowerCase()): <<f>> or <<>>
find(features, stateName) ==
  LET name(f) == IF f.state_name = Absent THEN "" ELSE f.state_name[1]
      hits == { k \in 1..Len(features) :
                  toLowerCase(name(features[k])) = toLowerCase(stateName) }
  IN  IF hits = {} THEN Absent
      ELSE <<features[CHOOSE k \in hits : \A m \in hits : k <= m]>>

\* window.updateDashboard(data, 'state'): as in site mode, but build Q draws
\* the state gauges, which the model does not hold
updateDashboardState(data) ==
  /\ lastData' = <<data>>
  /\ loadingShown' = FALSE
  /\ IF dashBuild = "Q"
       THEN UNCHANGED <<agentInsight, wizardState, solarLabel, windLabel>>
       ELSE /\ wizardState' = [wizardState EXCEPT !.loc = data.state_name]
            /\ agentInsight' = analyze(dashBuild, data)
            /\ UNCHANGED <<solarLabel, windLabel>>
  /\ UNCHANGED wizardSuggestion

\* data after data.state_name = stateName; reg names the activation
RegionRecord(body, stateName, reg) ==
  [solar_mean_score |-> IF body = ErrorBody THEN Absent ELSE body[1],
   wind_mean_score |-> IF body = ErrorBody THEN Absent ELSE body[2],
   slope |-> Absent, state_name |-> stateName, req |-> 0, reg |-> reg]

\* up to the first await: the mode, the status line, the metrics fetch
fetchAndZoomState(stateName) ==
  /\ Len(regs) < MaxRegion
  /\ switchMode("state")
  /\ statusText' =
       IF mapBuild = "M2" THEN "Orchestrating Region: " \o stateName
       ELSE IF mapBuild = "P1" THEN "Loading..."
       ELSE "Syncing Region: " \o stateName
  /\ regs' = Append(regs, Region("res", stateName, "pending", "unsent",
                                 Absent, "none", "none"))
  /\ UNCHANGED <<dashBuild, pageFault, arg, dashVars, wizVars, qVars, histVars, reqs,
                 issued, activeMarker, popup, loadingShown, mapBuild,
                 highlightLayer, mapView, gps>>

\* the browser settles one fetch of an activation
RegionFetchSettles(j, which, outcome) ==
  /\ j \in 1..Len(regs)
  /\ regs[j].pc \in {"res", "geo"}
  /\ regs[j][which] = "pending"
  /\ regs' = [regs EXCEPT ![j][which] = outcome]
  /\ UNCHANGED <<layerVars, dashBuild, pageFault, arg, dashVars, wizVars, qVars, histVars, reqs,
                 issued, activeMarker, popup, loadingShown, statusText,
                 mapBuild, highlightLayer, mapView, gps>>

\* the catch block; build P1's finally block starts the 3 s timer
RegionCaught(j, bad) ==
  /\ statusText' =
       IF mapBuild = "M1" THEN "Regional server connection failed."
       ELSE IF mapBuild = "M2" THEN "Regional telemetry failed."
       ELSE IF mapBuild = "P2" THEN "Regional server error."
       ELSE "State not found"
  /\ regs' = [regs EXCEPT
       ![j].pc = "done", ![j].result = "caught", ![j].data = Absent,
       ![j].res = IF bad = "res" THEN "malformed" ELSE @,
       ![j].geoRes = IF bad = "geoRes" THEN "malformed"
                     ELSE IF bad = "features" THEN "noFeatures" ELSE @,
       ![j].timer = IF mapBuild = "P1" THEN "pending" ELSE @]
  /\ UNCHANGED <<dashVars, wizardState, loadingShown, highlightLayer, mapView>>

\* await fetch(state_metrics) settles; only build P1 requires res.ok
AwaitRes(j) ==
  /\ j \in 1..Len(regs)
  /\ regs[j].pc = "res"
  /\ regs[j].res # "pending"
  /\ IF regs[j].res = "rejected" \/ (mapBuild = "P1" /\ regs[j].res # "ok")
       THEN RegionCaught(j, "")
       ELSE /\ regs' = [regs EXCEPT ![j].pc = "resJson"]
            /\ UNCHANGED <<dashVars, wizardState, loadingShown, statusText,
                           highlightLayer, mapView>>
  /\ UNCHANGED <<layerVars, dashBuild, pageFault, arg, wizView, wizResults, qVars, histVars, reqs,
                 issued, activeMarker, popup, mapBuild, gps>>

\* await res.json() settles; data.state_name is set and the boundary fetch sent
ResJson(j, body) ==
  /\ j \in 1..Len(regs)
  /\ regs[j].pc = "resJson"
  /\ body \in BodiesOf(regs[j].res, MetricsBodies, ErrorBody, Malformed)
  /\ IF body = Malformed
       THEN RegionCaught(j, "res")
       ELSE /\ regs' = [regs EXCEPT ![j].pc = "geo", ![j].data = <<body>>,
                                    ![j].geoRes = "pending"]
            /\ UNCHANGED <<dashVars, wizardState, loadingShown, statusText,
                           highlightLayer, mapView>>
  /\ UNCHANGED <<layerVars, dashBuild, pageFault, arg, wizView, wizResults, qVars, histVars, reqs,
                 issued, activeMarker, popup, mapBuild, gps>>

\* await fetch(states) settles; only build P1 requires geoRes.ok
AwaitGeo(j) ==
  /\ j \in 1..Len(regs)
  /\ regs[j].pc = "geo"
  /\ regs[j].geoRes # "pending"
  /\ IF regs[j].geoRes = "rejected"
        \/ (mapBuild = "P1" /\ regs[j].geoRes # "ok")
       THEN RegionCaught(j, "")
       ELSE /\ regs' = [regs EXCEPT ![j].pc = "geoJson"]
            /\ UNCHANGED <<dashVars, wizardState, loadingShown, statusText,
                           highlightLayer, mapView>>
  /\ UNCHANGED <<layerVars, dashBuild, pageFault, arg, wizView, wizResults, qVars, histVars, reqs,
                 issued, activeMarker, popup, mapBuild, gps>>

\* await geoRes.json() settles: the feature is looked up, highlighted and
\* zoomed to if there is one, and the record goes to the dashboard
GeoJson(j, body) ==
  /\ j \in 1..Len(regs)
  /\ regs[j].pc = "geoJson"
  /\ body \in BodiesOf(regs[j].geoRes, GeoBodies, GeoErrorBody, GeoMalformed)
  /\ IF body = GeoMalformed THEN RegionCaught(j, "geoRes")
     ELSE IF body = GeoErrorBody THEN RegionCaught(j, "features")
     ELSE
       LET feature == find(body.features, regs[j].stateName)
       IN  /\ highlightLayer' =
                IF feature # Absent /\ mapBuild # "P1" THEN feature[1].id
                ELSE highlightLayer
           /\ mapView' =
                IF feature # Absent THEN View("feature", <<0, 0>>, feature[1].id)
                ELSE mapView
           /\ updateDashboardState(
                RegionRecord(regs[j].data[1], regs[j].stateName, j))
           /\ statusText' = IF mapBuild = "P1"
                              THEN "Showing " \o regs[j].stateName
                              ELSE statusText
           /\ regs' = [regs EXCEPT
                ![j].pc = "done", ![j].result = "handed",
                ![j].data = <<[features |-> body.features, feature |-> feature]>>,
                ![j].timer = IF mapBuild = "P1" THEN "pending" ELSE @]
  /\ UNCHANGED <<layerVars, dashBuild, pageFault, arg, wizView, wizResults, qVars, histVars, reqs,
                 issued, activeMarker, popup, mapBuild, gps>>

\* build P1: the timer of the finally block clears the status line
ClearStatus(j) ==
  /\ j \in 1..Len(regs)
  /\ regs[j].timer = "pending"
  /\ statusText' = ""
  /\ regs' = [regs EXCEPT ![j].timer = "fired"]
  /\ UNCHANGED <<layerVars, dashBuild, pageFault, arg, dashVars, wizVars, qVars, histVars, reqs,
                 issued, activeMarker, popup, loadingShown, mapBuild,
                 highlightLayer, mapView, gps>>

InitRegion ==
  /\ InitPage /\ arg = <<>> /\ gps = NoGps /\ pageFault = "none"
  /\ InitLayersPending
  /\ dashBuild = "B" /\ mapBuild \in MapBuilds

NextRegion ==
  \/ \E n \in StateNames : fetchAndZoomState(n)
  \/ \E j \in 1..MaxRegion, which \in {"res", "geoRes"}, o \in FetchOutcomes :
       RegionFetchSettles(j, which, o)
  \/ \E j \in 1..MaxRegion : AwaitRes(j)
  \/ \E j \in 1..MaxRegion, b \in MetricsBodies \cup {ErrorBody, Malformed} :
       ResJson(j, b)
  \/ \E j \in 1..MaxRegion : AwaitGeo(j)
  \/ \E j \in 1..MaxRegion, b \in GeoBodies \cup {GeoErrorBody, GeoMalformed} :
       GeoJson(j, b)
  \/ \E j \in 1..MaxRegion : ClearStatus(j)

SpecRegion == InitRegion /\ [][NextRegion]_vars

----------------------------------------------------------------------------
(* map.js: triggerGPSOrchestrator.  Coordinates are <<lat, lon>> in 1/10000    *)
(* of a degree.  gps.asked counts the presses of #gps-btn, gps.pending the     *)
(* getCurrentPosition requests not yet answered, gps.timers the simulation     *)
(* timers not yet fired; gps.fixes lists the positions the device reported.    *)

\* how often #gps-btn is pressed
MaxFix == 1

SOMALIA_BOUNDS == [lat |-> <<-15000, 120000>>, lon |-> <<410000, 515000>>]

\* orchestrateSpatialAnalysis(2.0467, 45.3438)
Simulation == <<20467, 453438>>

\* the positions the device may report: on and just outside the bounds
GpsFixes ==
  { <<-15000, 410000>>, <<120000, 515000>>,
    <<-15001, 410000>>, <<120000, 515001>> }

\* the test with the bounds exclusive
inSomalia_Exclusive(coord) ==
  /\ coord[1] > SOMALIA_BOUNDS.lat[1] /\ coord[1] < SOMALIA_BOUNDS.lat[2]
  /\ coord[2] > SOMALIA_BOUNDS.lon[1] /\ coord[2] < SOMALIA_BOUNDS.lon[2]

inSomalia(coord) ==
  /\ coord[1] >= SOMALIA_BOUNDS.lat[1] /\ coord[1] <= SOMALIA_BOUNDS.lat[2]
  /\ coord[2] >= SOMALIA_BOUNDS.lon[1] /\ coord[2] <= SOMALIA_BOUNDS.lon[2]

\* #gps-btn is pressed: without navigator.geolocation the status line says so
\* and the handler returns; otherwise the position is asked for
triggerGPSOrchestrator ==
  /\ mapBuild # "P1"
  /\ gps.asked < MaxFix
  /\ IF ~gps.supported
       THEN /\ statusText' =
                 IF mapBuild = "M1" THEN "GPS Not Supported."
                 ELSE IF mapBuild = "M2"
                   THEN "GPS Failure: Hardware not detected."
                 ELSE "GPS Not Detected."
            /\ gps' = [gps EXCEPT !.asked = @ + 1]
       ELSE /\ statusText' =
                 IF mapBuild = "M2" THEN "Querying Satellite Constellation..."
                 ELSE "satellite Lock..."
            /\ gps' = [gps EXCEPT !.asked = @ + 1, !.pending = @ + 1]
  /\ UNCHANGED <<layerVars, dashBuild, pageFault, arg, dashVars, wizVars, qVars, histVars, reqs,
                 issued, activeMarker, popup, loadingShown, mapBuild, regs,
                 highlightLayer, mapView>>

\* the error callback of getCurrentPosition
GpsError_Simulates ==
  /\ gps.pending > 0
  /\ issued + gps.timers < MaxPoint
  /\ Launch(Simulation, "manual", Absent)
  /\ statusText' = "GPS Blocked."
  /\ gps' = [gps EXCEPT !.pending = @ - 1]
  /\ UNCHANGED <<dashBuild, pageFault, arg, dashVars, wizVars, qVars, histVars, mapBuild,
                 regs>>

GpsError ==
  /\ gps.pending > 0
  /\ statusText' = IF mapBuild = "M2" THEN "GPS Request Denied by User."
                   ELSE "GPS Blocked."
  /\ gps' = [gps EXCEPT !.pending = @ - 1]
  /\ UNCHANGED <<layerVars, dashBuild, pageFault, arg, dashVars, wizVars, qVars, histVars, reqs,
                 issued, activeMarker, popup, loadingShown, mapBuild, regs,
                 highlightLayer, mapView>>

\* the success callback of getCurrentPosition: inside the bounds the analysis
\* of the device position starts; outside, the analysis of the simulation
\* site starts at once (build M1) or a timer is set for it (builds M2, P2)
GpsFix(coord) ==
  /\ gps.pending > 0
  /\ issued + gps.timers < MaxPoint
  /\ IF inSomalia(coord)
       THEN /\ Launch(coord, "gps", Absent)
            /\ statusText' =
                 IF mapBuild = "M2" THEN "AOI Confirmed: Somalia Mission Area."
                 ELSE statusText
            /\ gps' = [gps EXCEPT !.pending = @ - 1,
                                  !.fixes = Append(@, coord)]
            /\ UNCHANGED agentInsight
       ELSE IF mapBuild = "M1"
       THEN /\ Launch(Simulation, "manual", Absent)
            /\ statusText' = "Kenya Context: Simulating Somalia Site..."
            /\ gps' = [gps EXCEPT !.pending = @ - 1,
                                  !.fixes = Append(@, coord)]
            /\ UNCHANGED agentInsight
       ELSE /\ statusText' =
                 IF mapBuild = "M2"
                   THEN "AOI Context: Kenya (Development Mode)."
                   ELSE "Context: Kenya (Simulation Mode)"
            /\ agentInsight' = Advisory("Simulation", "")
            /\ gps' = [gps EXCEPT !.pending = @ - 1, !.timers = @ + 1,
                                  !.fixes = Append(@, coord)]
            /\ UNCHANGED <<reqs, issued, activeMarker, popup, loadingShown,
                           highlightLayer, mapView, layerVars>>
  /\ UNCHANGED <<dashBuild, pageFault, arg, solarLabel, windLabel, lastData,
                 wizardSuggestion, wizVars,
                 qVars, histVars, mapBuild, regs>>

\* builds M2, P2: the simulation timer fires
SimTimer ==
  /\ gps.timers > 0
  /\ Launch(Simulation, "manual", Absent)
  /\ gps' = [gps EXCEPT !.timers = @ - 1]
  /\ UNCHANGED <<dashBuild, pageFault, arg, dashVars, wizVars, qVars, histVars,
                 statusText, mapBuild, regs>>

\* what the backend answers while the location is resolved: the pixel request
\* succeeds or is refused, the bodies are well formed
GpsOutcomes == {"ok", "notOk"}

GpsPixelBody == <<Some(9 * Scale), Some(3 * Scale), Some(2 * Scale)>>

\* the builds with a #gps-btn, on a device with or without geolocation
InitGps ==
  /\ InitPage /\ arg = <<>> /\ pageFault = "none"
  /\ InitLayersPending
  /\ dashBuild = "B"
  /\ mapBuild \in MapBuilds \ {"P1"}
  /\ gps \in {NoGps, [NoGps EXCEPT !.supported = FALSE]}

NextGps ==
  \/ issued < MaxPoint /\ orchestrateSpatialAnalysis(ClickAt, "manual", Absent)
  \/ triggerGPSOrchestrator
  \/ \E c \in GpsFixes : GpsFix(c)
  \/ GpsError
  \/ SimTimer
  \/ \E i \in 1..MaxReq, which \in {"pixel", "state"}, o \in GpsOutcomes :
       FetchSettles(i, which, o)
  \/ \E i \in 1..MaxReq : AwaitAll(i)
  \/ \E i \in 1..MaxReq : PixelJson(i, GpsPixelBody)
  \/ \E i \in 1..MaxReq : StateJson(i, <<"Banadir">>)

SpecGps == InitGps /\ [][NextGps]_vars

----------------------------------------------------------------------------
(* Properties *)

Rendered == lastData # <<>>
SolarScore == NullishZero(lastData[1].solar_mean_score)
WindScore == NullishZero(lastData[1].wind_mean_score)
SlopeValue == OrZero(lastData[1].slope)

\* the band the thresholds 2, 4, 6, 8 give a score (half-open, lower bound in)
BandOf(v) ==
  IF v < 2 * Scale THEN "Lowest Potential"
  ELSE IF v < 4 * Scale THEN "Low Potential"
  ELSE IF v < 6 * Scale THEN "Moderate Potential"
  ELSE IF v < 8 * Scale THEN "High Potential"
  ELSE "Highest Potential"

\* C2: classifyScore gives Lowest below 2, Low on [2,4), Moderate on [4,6),
\* High on [6,8) and Highest from 8 on, for every score; a score below 0 or
\* above 10 is classified by the same thresholds, not clamped or rejected.
C2_ClassifyThresholds ==
  (dashBuild = "Q" /\ Rendered) =>
     /\ solarLabel = BandOf(SolarScore)
     /\ windLabel = BandOf(WindScore)
     /\ (SolarScore < 0 => solarLabel = "Lowest Potential")
     /\ (SolarScore > 10 * Scale => solarLabel = "Highest Potential")

C2_Witness ==
  /\ dashBuild = "Q" /\ Rendered
  /\ SolarScore > 10 * Scale /\ solarLabel = "Highest Potential"
  /\ WindScore < 0 /\ windLabel = "Lowest Potential"

Rank(label) ==
  IF label = "Lowest Potential" THEN 0
  ELSE IF label = "Low Potential" THEN 1
  ELSE IF label = "Moderate Potential" THEN 2
  ELSE IF label = "High Potential" THEN 3
  ELSE IF label = "Highest Potential" THEN 4
  ELSE 0 - 1

\* C3: the category rank is monotone in the score (s1 <= s2 implies
\* rank(classify(s1)) <= rank(classify(s2))), and the category changes exactly
\* at 2, 4, 6 and 8: the boundary value is in the upper band, every value
\* below it in a lower band.
C3_MonotoneBoundaries ==
  (dashBuild = "Q" /\ Rendered) =>
     /\ Rank(solarLabel) \in 0..4 /\ Rank(windLabel) \in 0..4
     /\ (SolarScore <= WindScore => Rank(solarLabel) <= Rank(windLabel))
     /\ (WindScore <= SolarScore => Rank(windLabel) <= Rank(solarLabel))
     /\ \A b \in 1..4 :
          /\ (SolarScore = 2 * b * Scale => Rank(solarLabel) = b)
          /\ (SolarScore = 2 * b * Scale - 1 => Rank(solarLabel) = b - 1)
          /\ (SolarScore < 2 * b * Scale => Rank(solarLabel) < b)
          /\ (SolarScore >= 2 * b * Scale => Rank(solarLabel) >= b)

C3_Witness ==
  /\ dashBuild = "Q" /\ Rendered
  /\ SolarScore = 6 * Scale - 1 /\ WindScore = 6 * Scale
  /\ solarLabel = "Moderate Potential" /\ windLabel = "High Potential"

\* C4: with slope above the limit (15) DecisionAgent.analyze returns the slope
\* constraint warning whatever the scores; with slope <= 15 (15 included) the
\* advisory is the one the score alone gets, never the slope warning.
C4_SlopeGate ==
  (dashBuild \in {"A", "B"} /\ Rendered) =>
     /\ (SlopeValue > slopeLimit * Scale => agentInsight.kind = "Constraint")
     /\ (SlopeValue <= slopeLimit * Scale =>
           /\ agentInsight.kind # "Constraint"
           /\ agentInsight =
                analyze(dashBuild, [lastData[1] EXCEPT !.slope = Some(0)]))

C4_Witness ==
  /\ dashBuild = "B" /\ Rendered
  /\ SlopeValue = slopeLimit * Scale + 1
  /\ SolarScore = 10 * Scale
  /\ agentInsight.kind = "Constraint"

\* the strings under which the builds name a hardware model or supplier
Names(id) ==
  IF id = "DHFS300" THEN
    {"Model: DHFS300 (1500W Motor; PV 6x335W)", "Model: DHFS300 (1500W; PV 6x335W)",
     "Recommended pump model: DHFS300 (motor rating 1500W; PV module 6x335W)"}
  ELSE IF id = "SUNFLO-B 500C" THEN
    {"Model: SUNFLO-B 500C (500W; PV 4x200W)",
     "Model: SUNFLO-B 500C (500W; PV 4x200W; Max 6m3/day)",
     "Recommended pump model: SUNFLO-B 500C (motor rating 500 W; PV module 4x200W) (maximum daily discharge is 6m3)"}
  ELSE IF id = "SUNFLO-A 270H" THEN
    {"Model: SUNFLO-A 270H (270W; PV 4x200W)",
     "Model: SUNFLO-A 270H (270W; PV 4x200W; Max 3m3/day)",
     "Recommended pump model: SUNFLO-A 270H (motor rating 270W; PV module 4x200W) (maximum daily discharge is 3m3)"}
  ELSE IF id = "SUNFLO-S 300" THEN
    {"Model: SUNFLO-S 300 (300W; PV 2x200W)",
     "Model: SUNFLO-S 300 (300W; PV 2x200W; Max 3m3/day)",
     "Recommended pump model: SUNFLO-S 300 (motor rating 300W; PV module 2x200W) (maximum daily discharge is 3m3)"}
  ELSE IF id = "SUNFLO-S 150" THEN
    {"Model: SUNFLO-S 150 (Motor 120W)", "Model: SUNFLO-S 150",
     "Recommended pump model: SUNFLO-S 150 (motor rating 120W; PV module 1x200W)"}
  ELSE IF id = "SUNFLO-A 150H" THEN
    {"Model: SUNFLO-A 150H (Motor 150W)", "Model: SUNFLO-A 150H",
     "Recommended pump model: SUNFLO-A 150H (motor rating 150W; PV module 1x200W)"}
  ELSE IF id = "SUNFLO-B 120H" THEN
    {"Model: SUNFLO-B 120H (Motor 120W)", "Model: SUNFLO-B 120H",
     "Recommended pump model: SUNFLO-B 120H (motor rating 120W; PV module 1x200W)"}
  ELSE IF id = "SUNFLO-A 600H" THEN
    {"Model: SUNFLO-A 600H (600W)", "Model: SUNFLO-A 600H (Motor 600W)",
     "Recommended pump model: SUNFLO-A 600H (motor rating 600W; PV module 4x200W)"}
  ELSE IF id = "SUNFLO-B 1000C" THEN
    {"Model: SUNFLO-B 1000C (1000W)", "Model: SUNFLO-B 1000C (Motor 1000W)",
     "Recommended pump model: SUNFLO-B 1000C (motor rating 1000W; PV module 8x200W)"}
  ELSE IF id = "SUNFRIDGE 55" THEN
    {"SUNFRIDGE 55", "Model: SUNFRIDGE 55 (80W; 430x230x315mm)",
     "Recommended freezer model: SUNFRIDGE 55 (power requirement 80W; internal dimension430x230x315)"}
  ELSE IF id = "SUNFRIDGE 130" THEN
    {"SUNFRIDGE 130", "Model: SUNFRIDGE 130 (128W; 513x530x585mm)",
     "Recommended freezer model: SUNFRIDGE 130 (power requirement 128W; internal dimension 513x530x585)"}
  ELSE IF id = "SUNFRIDGE 240" THEN
    {"SUNFRIDGE 240", "Model: SUNFRIDGE 240 (150W; 993x516x594mm)",
     "Recommended freezer model: SUNFRIDGE 240 (power requirement 150W; internal dimension 993x516x594)"}
  ELSE IF id = "Grekkon" THEN
    {"Supplier: Grekkon Limited, Kenya", "Supplier: Grekkon Ltd, Kenya",
     "Recommended supplier: Grekkon Limited, Kenya"}
  ELSE IF id = "Aqua Hub" THEN
    {"Supplier: Aqua Hub Kenya", "Recommended supplier: Aqua Hub Kenya LTD"}
  ELSE IF id = "single" THEN
    {"Single Induction (400W Panel)", "Single Induction (Athel Tech; 400W Panel)"}
  ELSE IF id = "double" THEN
    {"Double Induction (800W Panel)", "Double Induction (Athel Tech; 800W Panel)"}
  ELSE IF id = "single+cooker" THEN
    {"Single Induction (400W Panel) + SCODE 6L Pressure Cooker",
     "Single Induction (Athel Tech; 400W Panel) + 6L Pressure Cooker (SCODE, Kenya)"}
  ELSE IF id = "double+cooker" THEN
    {"Double Induction (800W Panel) + SCODE 6L Pressure Cooker",
     "Double Induction (Athel Tech; 800W Panel) + 6L Pressure Cooker (SCODE, Kenya)"}
  ELSE {}

\* the last operation was the answer val to question st of section s
Answered(s, st, val) ==
  /\ lastOp.op \in {"procWiz", "handleAnswer"}
  /\ lastOp.section = s /\ lastOp.step = st /\ lastOp.val = val

\* the session ended with the recommendation id on show
Terminal(id) ==
  IF dashBuild = "Q"
    THEN qForm = "empty" /\ qResults # <<>> /\ qResults[1] \in Names(id)
    ELSE wizView = "done" /\ ~wizResults.hidden /\ wizResults.model \in Names(id)

\* the session went on to question st, with no recommendation on show
MovedTo(st) ==
  IF dashBuild = "Q"
    THEN qForm = "question" /\ currentQNum = st /\ qResults = <<>>
    ELSE wizView = "question" /\ wizardState.step = st /\ wizResults.hidden

\* C5: water-pumping: at step 1 surface ends with DHFS300 and underground
\* moves to step 2 without a recommendation; at step 2 <30m moves to step 3,
\* 61-70m to step 7, and 31-40m, 41-50m, 51-60m end with SUNFLO-B 500C,
\* SUNFLO-A 270H and SUNFLO-S 300.
C5_WaterSteps12 ==
  /\ (Answered("water-pumping", 1, "surface") => Terminal("DHFS300"))
  /\ (Answered("water-pumping", 1, "underground") => MovedTo(2))
  /\ (Answered("water-pumping", 2, "less-30") => MovedTo(3))
  /\ (Answered("water-pumping", 2, "61-70") => MovedTo(7))
  /\ (Answered("water-pumping", 2, "31-40") => Terminal("SUNFLO-B 500C"))
  /\ (Answered("water-pumping", 2, "41-50") => Terminal("SUNFLO-A 270H"))
  /\ (Answered("water-pumping", 2, "51-60") => Terminal("SUNFLO-S 300"))

C5_Witness ==
  /\ dashBuild = "B"
  /\ Answered("water-pumping", 2, "61-70")
  /\ wizView = "question" /\ wizardState.step = 7
  /\ wizardState.data[1] = "underground"

\* the answers that led to the question on show
AnswersSoFar ==
  IF dashBuild = "Q" THEN <<answers.q1, answers.q2>>
  ELSE <<wizardState.data[1], wizardState.data[2]>>

AtQuestion(st) ==
  IF dashBuild = "Q"
    THEN currentSection = "water-pumping" /\ qForm = "question" /\ currentQNum = st
    ELSE wizardState.section = "water-pumping" /\ wizView = "question"
         /\ wizardState.step = st

\* C6: water-pumping: step 3, reached only by underground then <30m, maps
\* 1, 2, 3 m3 to SUNFLO-S 150, SUNFLO-A 150H, SUNFLO-B 120H; step 7, reached
\* only by underground then 61-70m, maps 4 m3 to SUNFLO-A 600H and 12 m3 to
\* SUNFLO-B 1000C; each of these answers ends the session.
C6_WaterSteps37 ==
  /\ (AtQuestion(3) => AnswersSoFar = <<"underground", "less-30">>)
  /\ (AtQuestion(7) => AnswersSoFar = <<"underground", "61-70">>)
  /\ (Answered("water-pumping", 3, "1") => Terminal("SUNFLO-S 150"))
  /\ (Answered("water-pumping", 3, "2") => Terminal("SUNFLO-A 150H"))
  /\ (Answered("water-pumping", 3, "3") => Terminal("SUNFLO-B 120H"))
  /\ (Answered("water-pumping", 7, "4") => Terminal("SUNFLO-A 600H"))
  /\ (Answered("water-pumping", 7, "12") => Terminal("SUNFLO-B 1000C"))

C6_Witness ==
  /\ dashBuild = "A"
  /\ Answered("water-pumping", 3, "3")
  /\ wizView = "done" /\ wizResults.model = "Model: SUNFLO-B 120H (Motor 120W)"
  /\ wizardState.data[2] = "less-30"

\* C7: in the single-step domains the first answer ends the session with the
\* table's outcome: refrigeration <55L, 51-130L, 131-240L give SUNFRIDGE 55,
\* 130, 240; drying passive gives Grekkon, active gives Aqua Hub Kenya.
C7_SingleStepDomains ==
  /\ (Answered("refrigeration", 1, "less-55") => Terminal("SUNFRIDGE 55"))
  /\ (Answered("refrigeration", 1, "51-130") => Terminal("SUNFRIDGE 130"))
  /\ (Answered("refrigeration", 1, "131-240") => Terminal("SUNFRIDGE 240"))
  /\ (Answered("drying", 1, "passive") => Terminal("Grekkon"))
  /\ (Answered("drying", 1, "active") => Terminal("Aqua Hub"))

C7_Witness ==
  /\ dashBuild = "B"
  /\ Answered("refrigeration", 1, "51-130")
  /\ wizView = "done"
  /\ wizResults.model = "Model: SUNFRIDGE 130 (128W; 513x530x585mm)"

\* the burner the session recorded at step 1
Burner == IF dashBuild = "Q" THEN answers.q1 ELSE wizardState.data[1]

\* C8: cooking: the step-1 answer (single or double) is recorded and moves to
\* step 2 without a recommendation; the step-2 answer ends the session with a
\* recommendation for the burner recorded at step 1, to which the pressure
\* cooker is added if and only if the step-2 answer is yes.
C8_Cooking ==
  /\ \A b \in {"single", "double"} :
       Answered("cooking", 1, b) => (MovedTo(2) /\ Burner = b)
  /\ (Answered("cooking", 2, "yes") /\ Burner = "single"
        => Terminal("single+cooker"))
  /\ (Answered("cooking", 2, "yes") /\ Burner = "double"
        => Terminal("double+cooker"))
  /\ (Answered("cooking", 2, "no") /\ Burner = "single" => Terminal("single"))
  /\ (Answered("cooking", 2, "no") /\ Burner = "double" => Terminal("double"))

\* C8 as builds A and B satisfy it
C8_CookingWizard == (dashBuild \in {"A", "B"}) => C8_Cooking

\* C9: resetWiz / resetQuestionnaire, from any state, leaves the menu state:
\* no domain, step 1, no accumulated answers.
C9_RestartClears ==
  /\ (lastOp.op = "resetWiz" =>
        /\ wizardState.section = "null" /\ wizardState.step = 1
        /\ wizardState.data = NoAnswers
        /\ wizView = "menu" /\ wizResults.hidden)
  /\ (lastOp.op = "resetQuestionnaire" =>
        /\ currentSection = "null" /\ currentQNum = 1
        /\ answers = NoQAnswers
        /\ qForm = "selector" /\ qResults = <<>>)

\* a reset that ended a finished session: its recommendation is still in the
\* hidden results element
C9_Witness ==
  /\ lastOp.op = "resetWiz"
  /\ wizResults.model \in Names("double+cooker")
  /\ wizView = "menu" /\ wizardState.data = NoAnswers

SameSession ==
  /\ wizView = "done" /\ memo # <<>>
  /\ memo[1].section = wizardState.section
  /\ memo[1].path = path

\* C10: two sessions with the same domain and the same answers end
\* with the same recommendation, model and note, whatever happened besides.
C10_Deterministic ==
  SameSession =>
    /\ memo[1].model = wizResults.model
    /\ memo[1].context = wizResults.context

\* What the code does give: such sessions end with the same model, and with the same note
\* when the session's location context (wizardState.loc) was the same at the
\* terminal answer.
C10_DeterministicGivenLoc ==
  SameSession =>
    /\ memo[1].model = wizResults.model
    /\ (memo[1].loc = lastOp.loc => memo[1].context = wizResults.context)

C10_Witness ==
  /\ SameSession
  /\ path = <<"surface">>
  /\ memo[1].loc = "Banadir" /\ lastOp.loc = "Banadir"
  /\ wizResults.context.loc = "Banadir"


\* every point analysis started so far has run to its end
AllSettled == issued > 0 /\ \A i \in 1..issued : reqs[i].pc = "done"

\* C1: when request #2 is issued while #1 is in flight, #1's result is
\* discarded in every order of resolution: it is never bound to the popup of
\* the marker #2 placed, and once both have settled and #2 gave a record, the
\* record the dashboard holds is #2's.
C1_StaleDiscarded ==
  /\ (popup # NoPopup => popup.req = popup.marker)
  /\ (AllSettled /\ reqs[issued].result = "handed"
        => lastData # <<>> /\ lastData[1].req = issued)

\* C1: a step that ends an activation which is no longer the newest changes
\* neither the record the consumers were given nor the popup.
C1_StaleNotDelivered ==
  [][\A i \in 1..Len(reqs) :
       (i < issued /\ reqs[i].pc # "done" /\ reqs'[i].pc = "done")
         => (lastData' = lastData /\ popup' = popup)]_vars


----------------------------------------------------------------------------
(* Point analysis: degradation *)

\* the texts by which a build reports that a point has no coverage
NoCoverageTexts ==
  {"Error: Coordinate outside data domain.",
   "Error: Point lacks valid raster coverage.",
   "Error: Point outside valid coverage."}

PixelUnavailable(r) == r.pixel \in {"notOk", "rejected", "malformed"}

\* the step ends activation i
Ends(i) == reqs[i].pc # "done" /\ reqs'[i].pc = "done"

\* the step shows the no-coverage outcome of activation i: in #search-status,
\* or, in build P1, in the popup the click opened if it is still the open one
SurfacesNoCoverage(i) ==
  IF mapBuild = "P1"
    THEN popup.marker = i => popup' = [marker |-> i, req |-> i]
    ELSE statusText' \in NoCoverageTexts

\* C11: when the pixel-metrics slot is unavailable (non-2xx, transport
\* failure or malformed payload) the point analysis fails with NoCoverage: it
\* ends in the catch block, its record is never the one the consumers hold,
\* and the step that ends it leaves the current record alone and surfaces the
\* no-coverage outcome, whatever the region-metrics slot gave.
C11_NoCoverage ==
  /\ [](\A i \in 1..Len(reqs) :
          (reqs[i].pc = "done" /\ PixelUnavailable(reqs[i]))
            => /\ reqs[i].result = "caught"
               /\ (lastData = <<>> \/ lastData[1].req # i))
  /\ [][\A i \in 1..Len(reqs) :
          (Ends(i) /\ PixelUnavailable(reqs'[i]))
            => (lastData' = lastData /\ SurfacesNoCoverage(i))]_vars

\* a point analysis whose pixel payload was malformed while region-metrics
\* succeeded, reported as no coverage
C11_Witness ==
  /\ mapBuild = "M2" /\ issued = 1
  /\ reqs[1].pc = "done" /\ reqs[1].pixel = "malformed" /\ reqs[1].state = "ok"
  /\ reqs[1].result = "caught"
  /\ statusText = "Error: Point lacks valid raster coverage."
  /\ lastData = <<>>


RegionFailed(r) == r.state \in {"notOk", "rejected", "malformed"}

\* C12: whenever the pixel-metrics slot succeeds, a record is delivered however
\* the region-metrics slot fails (non-2xx, rejected fetch, malformed payload):
\* the activation ends with its record handed over, not in the catch block.
C12_RegionFailureContained ==
  \A i \in 1..Len(reqs) :
    (reqs[i].pc = "done" /\ reqs[i].pixel = "ok" /\ RegionFailed(reqs[i]))
      => reqs[i].result = "handed"

\* what the code does give: a region-metrics response that is not ok is
\* contained, the record is delivered with the placeholder name
C12_NotOkContained ==
  \A i \in 1..Len(reqs) :
    (reqs[i].pc = "done" /\ reqs[i].pixel = "ok" /\ reqs[i].state = "notOk")
      => reqs[i].result = "handed"


\* the names a build puts in place of a region name it could not get
Placeholders == {"Unmapped Region", "Unmapped Area", "Unknown"}

\* the region names the backend's state metrics carry
FetchedNames == { b[1] : b \in StateBodies \ {Absent} }

\* C13: every record a point analysis delivers has a populated region name:
\* the fetched name, or the placeholder when region-metrics gave a failure
\* status or a payload without a name.
C13_RegionNamePopulated ==
  (lastData # <<>> /\ lastData[1].req > 0)
    => /\ lastData[1].state_name \notin {"undefined", ""}
       /\ lastData[1].state_name \in FetchedNames \cup Placeholders

\* C13 as the builds with the || fallback (M2, P1, P2) satisfy it
C13_PopulatedWithFallback == (mapBuild # "M1") => C13_RegionNamePopulated

\* the step in which activation j of fetchAndZoomState hands its record over
Delivers(j) ==
  /\ j <= Len(regs)
  /\ regs[j].pc = "geoJson"
  /\ regs'[j].result = "handed"

\* some feature of the collection read by activation j bears the region's
\* name, letter case aside (a feature without a name counts as named "")
Named(j) ==
  \E k \in 1..Len(regs'[j].data[1].features) :
    LET f == regs'[j].data[1].features[k]
    IN  toLowerCase(IF f.state_name = Absent THEN "" ELSE f.state_name[1])
          = toLowerCase(regs[j].stateName)

RegionErrorTexts ==
  {"Regional server connection failed.", "Regional telemetry failed.",
   "Regional server error.", "State not found"}

GeoFailed(r) == r.geoRes \in {"notOk", "rejected", "malformed", "noFeatures"}

MetricsFailed(r) == r.res \in {"notOk", "rejected", "malformed"}

\* C15: a region selection whose metrics request succeeded and whose boundary
\* request failed (non-2xx, transport error, unusable body) has still handed
\* its record to the dashboard
C15_GeometryFailureTolerated ==
  \A j \in 1..Len(regs) :
    (regs[j].pc = "done" /\ regs[j].res = "ok" /\ GeoFailed(regs[j]))
      => regs[j].result = "handed"

\* C16: a region selection whose metrics request failed (non-2xx, transport
\* error, unusable body) hands no record to the dashboard and highlights no
\* boundary
C16_MetricsFailureNotDelivered ==
  /\ \A j \in 1..Len(regs) :
       (regs[j].pc = "done" /\ MetricsFailed(regs[j]))
         => regs[j].result = "caught"
  /\ [][\A j \in 1..MaxRegion :
          (j <= Len(regs) /\ MetricsFailed(regs[j]))
            => ~(Delivers(j) /\ highlightLayer' # highlightLayer)]_vars

\* what does hold: a metrics request that is rejected or whose body does not
\* parse ends in the catch block, in every build; a non-2xx answer does so in
\* the build that tests res.ok
C16_RejectedNotDelivered ==
  \A j \in 1..Len(regs) :
    (regs[j].pc = "done"
     /\ (regs[j].res \in {"rejected", "malformed"}
         \/ (mapBuild = "P1" /\ regs[j].res = "notOk")))
      => regs[j].result = "caught"

\* the step in which point analysis i, started with town metadata, hands its
\* record to the dashboard
DeliversTown(i) ==
  /\ i <= Len(reqs)
  /\ reqs[i].townData # Absent
  /\ reqs[i].pc # "done"
  /\ reqs'[i].result = "handed"

\* C17: the record a town click delivers carries the town's population,
\* infrastructure note and source URL; and when the town metadata names the
\* region and the fetched state metrics name it too (the record's region name
\* is not a placeholder), the record bears the metadata's region name.
C17_MetadataNameWins ==
  [][\A i \in 1..MaxReq : DeliversTown(i) =>
       LET props == reqs[i].townData[1]
           data == lastData'[1]
       IN  /\ lastData' # Absent
           /\ data.req = i
           /\ data.pop = props.pop
           /\ data.infra = props.infra
           /\ data.source_url = props.source_url
           /\ ("state_name" \in DOMAIN props
               /\ data.state_name \notin Placeholders)
                => data.state_name = props.state_name]_vars

\* what does hold: the town's attributes reach the record, and the region
\* name is the fetched one, or the placeholder
C17_AttributesKept ==
  [][\A i \in 1..MaxReq : DeliversTown(i) =>
       LET props == reqs[i].townData[1]
           data == lastData'[1]
       IN  /\ lastData' # Absent
           /\ data.req = i
           /\ data.name = props.name
           /\ data.pop = props.pop
           /\ data.infra = props.infra
           /\ data.source_url = props.source_url
           /\ data.state_name \in FetchedNames \cup Placeholders]_vars

\* C18: given that the fetches settle, every point analysis that was started
\* ends (its record handed over or its failure reported) with the loading
\* indicator cleared.
C18_Completes ==
  \A i \in 1..MaxPoint :
    (issued >= i) ~> (/\ i <= Len(reqs)
                      /\ reqs[i].pc = "done" /\ reqs[i].result # "none"
                      /\ ~loadingShown)

\* an analysis has been started, has failed, and the indicator it showed is
\* cleared
C18_Witness ==
  /\ issued >= 1
  /\ mapBuild = "M2"
  /\ reqs[1].pc = "done" /\ reqs[1].result = "caught"
  /\ ~loadingShown

LocationUnavailableTexts ==
  {"GPS Not Supported.", "GPS Failure: Hardware not detected.",
   "GPS Not Detected.", "GPS Blocked.", "GPS Request Denied by User."}

\* the step is a press of #gps-btn on a device without geolocation, or the
\* error callback of a position request
LocationFails ==
  \/ ~gps.supported /\ gps'.asked > gps.asked
  \/ gps'.pending < gps.pending /\ gps'.fixes = gps.fixes

\* C19: when the device has no geolocation, or the position request is denied
\* or fails, the status line says so and nothing else changes: no point
\* analysis is started or scheduled, and the record, the advisory, the marker,
\* the popup, the highlight and the view stay as they were.
C19_LocationUnavailable ==
  [][LocationFails =>
       /\ statusText' \in LocationUnavailableTexts
       /\ gps'.timers = gps.timers
       /\ UNCHANGED <<reqs, issued, lastData, agentInsight, activeMarker,
                      popup, loadingShown, highlightLayer, mapView, regs,
                      wizVars>>]_vars

\* a record is on the dashboard and its marker on the map when the position
\* request has failed
C19_Witness ==
  /\ statusText \in {"GPS Blocked.", "GPS Request Denied by User."}
  /\ gps.asked = 1 /\ gps.pending = 0 /\ gps.fixes = <<>>
  /\ lastData # Absent
  /\ activeMarker = 1
  /\ issued = 1

\* the point analyses started from a position fix or a simulation timer
Located == { i \in 1..Len(reqs) : reqs[i].at # ClickAt }

\* C20: a position fix starts exactly one point analysis: at the reported
\* position, with source "gps", exactly when its latitude is within
\* [-1.5, 12.0] and its longitude within [41.0, 51.5], bounds included;
\* otherwise at the simulation site (2.0467, 45.3438), at once or when the
\* timer set for it fires.  No analysis starts at a reported position outside
\* the bounds.
C20_OneAnalysisPerFix ==
  /\ [](/\ Cardinality(Located) + gps.timers = Len(gps.fixes)
        /\ \A i \in 1..Len(reqs) :
             \/ reqs[i].at \in {ClickAt, Simulation}
             \/ /\ reqs[i].at[1] >= -15000 /\ reqs[i].at[1] <= 120000
                /\ reqs[i].at[2] >= 410000 /\ reqs[i].at[2] <= 515000)
  /\ [][Len(gps'.fixes) > Len(gps.fixes) =>
          LET c == gps'.fixes[Len(gps'.fixes)]
              within == /\ c[1] >= -15000 /\ c[1] <= 120000
                        /\ c[2] >= 410000 /\ c[2] <= 515000
              started == /\ Len(reqs') = Len(reqs) + 1
                         /\ gps'.timers = gps.timers
              timed == /\ reqs' = reqs
                       /\ gps'.timers = gps.timers + 1
          IN  IF within
                THEN /\ started
                     /\ reqs'[Len(reqs')].at = c
                     /\ reqs'[Len(reqs')].source = "gps"
                ELSE \/ started /\ reqs'[Len(reqs')].at = Simulation
                     \/ timed]_vars
  /\ [][gps'.timers < gps.timers =>
          /\ gps'.timers = gps.timers - 1
          /\ Len(reqs') = Len(reqs) + 1
          /\ reqs'[Len(reqs')].at = Simulation]_vars

\* a fix on the corner of the bounds has started the analysis of that position
C20_Witness ==
  /\ gps.fixes = << <<120000, 515000>> >>
  /\ Len(reqs) = 1
  /\ reqs[1].at = <<120000, 515000>>
  /\ reqs[1].source = "gps"

SimulationTexts ==
  {"Kenya Context: Simulating Somalia Site...",
   "AOI Context: Kenya (Development Mode).",
   "Context: Kenya (Simulation Mode)"}

\* point analysis i was started for the simulation site and its record is
\* the one on the dashboard
SimulatedShown(i) ==
  /\ reqs[i].at = Simulation
  /\ reqs[i].pc = "done" /\ reqs[i].result = "handed"
  /\ lastData # Absent /\ lastData[1].req = i

\* C21: once the analysis substituted for an out-of-area position has
\* completed, something still marks its result as simulated: the status line,
\* the advisory, or the source the analysis ran under.
C21_SimulationMarked ==
  \A i \in 1..Len(reqs) :
    SimulatedShown(i) =>
      \/ statusText \in SimulationTexts
      \/ agentInsight = Advisory("Simulation", "")
      \/ reqs[i].source \notin {"manual", "gps"}

\* what does hold: the substituted analysis runs as a manual one and ends with
\* the status line of a manual analysis
C21_EndsAsManual ==
  \A i \in 1..Len(reqs) :
    SimulatedShown(i) =>
      /\ reqs[i].source = "manual"
      /\ statusText \notin SimulationTexts

\* point analysis i got a usable pixel report and no rejection or unparsable
\* body from the region metrics: an analysis that succeeds
Succeeds(r) ==
  /\ r.pc = "done"
  /\ r.pixel = "ok"
  /\ r.state \in {"ok", "notOk"}

\* C22: when the dashboard throws while it renders the record, the point
\* analysis still ends in its success outcome: the record was handed over,
\* the step that ends the analysis writes no no-coverage text to the status
\* line (build P1: to the popup) and no out-of-domain advisory, and the
\* loading indicator is cleared.
C22_ConsumerFailureContained ==
  /\ [](\A i \in 1..Len(reqs) :
          (pageFault # "none" /\ Succeeds(reqs[i]))
            => reqs[i].result = "handed")
  /\ [][\A i \in 1..MaxReq :
          (pageFault # "none" /\ i <= Len(reqs) /\ Ends(i)
           /\ Succeeds(reqs'[i]))
            => /\ lastData' # Absent /\ lastData'[1].req = i
               /\ statusText' # statusText
                    => statusText' \notin NoCoverageTexts
               /\ agentInsight' # agentInsight
                    => agentInsight' # Advisory("OutsideDomain", "")
               /\ popup' # popup => popup'.req = i
               /\ ~loadingShown']_vars

\* an analysis has ended in its success outcome on a page whose dashboard
\* threw before it wrote the advisory
C22_Witness ==
  /\ pageFault = "early" /\ dashBuild = "B" /\ mapBuild = "M2"
  /\ Len(reqs) = 1 /\ Succeeds(reqs[1]) /\ reqs[1].result = "handed"
  /\ statusText = "Coordinate analysis synchronized."
  /\ agentInsight = NoAdvisory
  /\ popup.req = 1

----------------------------------------------------------------------------
(* layerManager.js: initLayers, and the map page's use of its result.      *)
(* The four builds of initLayers are "L1" (layerManager.js 138-165, the    *)
(* same text as part_002 147-174), "L2" (part_001 150-189), "L3" (part_003 *)
(* 96-131) and "L4" (part_003 187-202).  An overlay slot holds "none"      *)
(* while it is not assigned, "empty" for L.layerGroup(), "fetched" or      *)
(* "bundled" for a layer built from features of that origin, and "absent"  *)
(* when the result has no such property.                                   *)

\* what the backend answers to /states and /api/towns
LayerOutcomes == {"ok", "notOk", "rejected"}

\* the body of a response: a FeatureCollection, JSON without features (an
\* error detail), or text that res.json() rejects
LayerBodies == {"features", "noFeatures", "malformed"}

LayerBodiesOf(outcome) ==
  IF outcome = "ok" THEN LayerBodies ELSE {"noFeatures", "malformed"}

\* createStatesLayer / createTownsLayer: L.layerGroup() unless the data has
\* features
createLayer(data, origin) == IF data = "features" THEN origin ELSE "empty"

\* everything initLayers and the layer steps leave alone
layerFrame ==
  <<dashBuild, pageFault, arg, dashVars, wizVars, qVars, histVars, mapVars,
    layerBuild, mode>>

\* a fetch of initLayers settles
LayerFetchSettles(slot, outcome) ==
  /\ layerInit[slot] = "pending"
  /\ layerInit' = [layerInit EXCEPT ![slot] = outcome]
  /\ UNCHANGED <<statesOnMap, layerFrame>>

\* the catch block of builds L1, L2, L4, and the return after it
layersCaught(li) ==
  CASE layerBuild = "L1" ->
         /\ layerInit' = [li EXCEPT !.pc = "done",
                            !.statesLayer = "empty", !.townsLayer = "empty"]
         /\ UNCHANGED statesOnMap
    [] layerBuild = "L2" ->
         /\ layerInit' = [li EXCEPT !.pc = "done",
                            !.statesLayer = IF layerInit.bundled
                                              THEN "bundled" ELSE "empty",
                            !.townsLayer = "empty"]
         /\ statesOnMap' = (layerInit.bundled \/ statesOnMap)
    [] OTHER ->
         /\ layerInit' = [li EXCEPT !.pc = "done",
                            !.statesLayer = "empty", !.townsLayer = "absent"]
         /\ UNCHANGED statesOnMap

\* build L3: the catch block of the boundary try, then the towns fetch is sent
statesFallback(li) ==
  /\ layerInit' = [li EXCEPT !.pc = "towns", !.towns = "pending",
                     !.statesLayer = IF layerInit.bundled
                                       THEN "bundled" ELSE @]
  /\ statesOnMap' = (layerInit.bundled \/ statesOnMap)

\* build L1: Promise.all of the two fetches settles, then the status check
AwaitFetches ==
  /\ layerInit.pc = "all"
  /\ \/ "rejected" \in {layerInit.states, layerInit.towns}
     \/ "pending" \notin {layerInit.states, layerInit.towns}
  /\ IF layerInit.states = "ok" /\ layerInit.towns = "ok"
       THEN /\ layerInit' = [layerInit EXCEPT !.pc = "statesJson"]
            /\ UNCHANGED statesOnMap
       ELSE layersCaught(layerInit)
  /\ UNCHANGED layerFrame

\* builds L2, L3, L4: await fetch(/states), then the status check
AwaitStatesRes ==
  /\ layerInit.pc = "states"
  /\ layerInit.states # "pending"
  /\ IF layerInit.states = "ok"
       THEN /\ layerInit' = [layerInit EXCEPT !.pc = "statesJson"]
            /\ UNCHANGED statesOnMap
       ELSE IF layerBuild = "L3" THEN statesFallback(layerInit)
       ELSE layersCaught(layerInit)
  /\ UNCHANGED layerFrame

\* await statesRes.json() and what follows up to the next await
StatesResJson(body) ==
  /\ layerInit.pc = "statesJson"
  /\ body \in LayerBodiesOf(layerInit.states)
  /\ LET Read == [layerInit EXCEPT !.statesData = body] IN
     CASE layerBuild = "L1" ->
            IF body = "malformed" THEN layersCaught(Read)
            ELSE /\ layerInit' = [layerInit EXCEPT !.pc = "townsJson",
                                                  !.statesData = body]
                 /\ UNCHANGED statesOnMap
       [] layerBuild = "L2" ->
            IF body = "malformed" THEN layersCaught(Read)
            ELSE /\ layerInit' = [layerInit EXCEPT !.pc = "towns",
                                    !.statesData = body, !.towns = "pending"]
                 /\ UNCHANGED statesOnMap
       [] layerBuild = "L3" ->
            IF body = "malformed" THEN statesFallback(Read)
            ELSE /\ layerInit' = [layerInit EXCEPT !.pc = "towns",
                                    !.statesData = body, !.towns = "pending",
                                    !.statesLayer = createLayer(body, "fetched")]
                 /\ statesOnMap' = TRUE
       [] OTHER ->
            IF body = "malformed" THEN layersCaught(Read)
            ELSE /\ layerInit' = [layerInit EXCEPT !.pc = "done",
                                    !.statesData = body,
                                    !.statesLayer = createLayer(body, "fetched"),
                                    !.townsLayer = "absent"]
                 /\ statesOnMap' = TRUE
  /\ UNCHANGED layerFrame

\* builds L2, L3: await fetch(/api/towns); build L3 checks the status
AwaitTownsRes ==
  /\ layerInit.pc = "towns"
  /\ layerInit.towns # "pending"
  /\ IF layerBuild = "L2"
       THEN IF layerInit.towns = "rejected" THEN layersCaught(layerInit)
            ELSE /\ layerInit' = [layerInit EXCEPT !.pc = "townsJson"]
                 /\ UNCHANGED statesOnMap
       ELSE /\ layerInit' = [layerInit EXCEPT !.pc =
                               IF layerInit.towns = "ok" THEN "townsJson"
                               ELSE "done"]
            /\ UNCHANGED statesOnMap
  /\ UNCHANGED layerFrame

\* await townsRes.json(), the layers are built and the result is returned
TownsResJson(body) ==
  /\ layerInit.pc = "townsJson"
  /\ body \in LayerBodiesOf(layerInit.towns)
  /\ IF layerBuild = "L3"
       THEN /\ layerInit' = [layerInit EXCEPT !.pc = "done",
                               !.townsData = body,
                               !.townsLayer = IF body = "malformed" THEN @
                                              ELSE createLayer(body, "fetched")]
            /\ UNCHANGED statesOnMap
       ELSE IF body = "malformed"
       THEN layersCaught([layerInit EXCEPT !.townsData = body])
       ELSE /\ layerInit' = [layerInit EXCEPT !.pc = "done",
                               !.townsData = body,
                               !.statesLayer =
                                 createLayer(layerInit.statesData, "fetched"),
                               !.townsLayer = createLayer(body, "fetched")]
            /\ statesOnMap' = TRUE
  /\ UNCHANGED layerFrame

\* #site-tab / #state-tab is clicked
TabClick(m) ==
  /\ switchMode(m)
  /\ UNCHANGED <<dashBuild, pageFault, arg, dashVars, wizVars, qVars,
                 histVars, mapVars>>

\* build P2, #refresh-view-btn is clicked
refreshView ==
  /\ mapBuild = "P2"
  /\ mapView' = InitialView
  /\ highlightLayer' = NoFeature
  /\ activeMarker' = 0
  /\ popup' = NoPopup
  /\ statesOnMap' = (layersLoaded \/ statesOnMap)
  /\ UNCHANGED <<dashBuild, pageFault, arg, dashVars, wizVars, qVars,
                 histVars, reqs, issued, loadingShown, statusText, mapBuild,
                 regs, gps, layerBuild, layerInit, mode>>

\* the point the map is clicked at
ClickPoint == <<20467, 453438>>

\* build P2 of the map page with every build of layerManager.js, with and
\* without the bundled boundaries
InitLayers ==
  /\ InitPage /\ mapBuild = "P2" /\ gps = NoGps /\ arg = <<>>
  /\ pageFault = "none"
  /\ layerBuild \in LayerBuilds
  /\ \E bundled \in BOOLEAN : layerInit = initLayers(layerBuild, bundled)
  /\ statesOnMap = FALSE
  /\ mode = "site"

\* the layers load while the user clicks on the map, switches the mode,
\* selects a region and resets the view; the responses of the analyses are
\* not delivered, their continuations touch neither the mode nor the layers
NextLayers ==
  \/ \E slot \in {"states", "towns"}, o \in LayerOutcomes :
       LayerFetchSettles(slot, o)
  \/ AwaitFetches
  \/ AwaitStatesRes
  \/ \E body \in LayerBodies : StatesResJson(body)
  \/ AwaitTownsRes
  \/ \E body \in LayerBodies : TownsResJson(body)
  \/ \E m \in {"site", "state"} : TabClick(m)
  \/ orchestrateSpatialAnalysis(ClickPoint, "manual", Absent)
  \/ fetchAndZoomState("Banadir")
  \/ refreshView

SpecLayers == InitLayers /\ [][NextLayers]_vars

----------------------------------------------------------------------------
(* Claims on initLayers *)

\* a slot of the result holds a layer: a placeholder or one built from data
IsLayer(slot) == slot \in {"empty", "fetched", "bundled"}

\* C23: whatever fetches fail, the result initLayers resolves with has a
\* statesLayer and a townsLayer, each a layer built from data or an empty
\* placeholder
C23_BothOverlays ==
  layersLoaded =>
    /\ IsLayer(layerInit.statesLayer)
    /\ IsLayer(layerInit.townsLayer)

\* C23, what every build does: the result has a statesLayer, and in the
\* builds L1, L2, L3 a townsLayer, also when both fetches failed
C23_StatesAlways ==
  layersLoaded =>
    /\ IsLayer(layerInit.statesLayer)
    /\ layerBuild # "L4" => IsLayer(layerInit.townsLayer)

\* the /states fetch of this activation failed: a transport error or a
\* status outside 2xx
StatesFetchFailed == layerInit.states \in {"notOk", "rejected"}

\* C24: in the builds with a fallback the boundary slot is built from the
\* bundled dataset exactly when the /states fetch failed and the dataset is
\* present; when the fetch succeeded the slot is built from the fetched data
C24_FallbackIffFetchFailed ==
  layersLoaded /\ layerBuild \in {"L2", "L3"} =>
    /\ StatesFetchFailed /\ layerInit.bundled
         => layerInit.statesLayer = "bundled"
    /\ layerInit.states = "ok" /\ layerInit.statesData = "features"
         => layerInit.statesLayer = "fetched"

\* C24, the half that holds in the builds with a fallback: a failed /states
\* fetch with the bundled dataset present ends with the bundled boundaries
C24_FallbackOnFailure ==
  layersLoaded /\ layerBuild \in {"L2", "L3"} /\ StatesFetchFailed
               /\ layerInit.bundled
    => layerInit.statesLayer = "bundled"

\* C24, build L3: fetched boundaries are never replaced by the bundled ones
C24_FetchedKept ==
  layersLoaded /\ layerBuild = "L3" /\ layerInit.statesData = "features"
    => layerInit.statesLayer = "fetched"

\* the towns fetch of this activation failed
TownsFetchFailed == layerInit.towns \in {"notOk", "rejected"}

\* the response body was read and held no features to build a layer from
Unusable(data) == data \in {"noFeatures", "malformed"}

\* C25: a failed towns fetch leaves the boundary slot built from the fetched
\* boundaries, and a failed boundary fetch leaves the towns slot built from
\* the fetched towns
C25_SlotsIsolated ==
  layersLoaded /\ layerBuild # "L4" =>
    /\ TownsFetchFailed /\ layerInit.states = "ok"
         => \/ layerInit.statesLayer = "fetched"
            \/ Unusable(layerInit.statesData)
    /\ StatesFetchFailed /\ layerInit.towns \in {"ok", "unsent"}
         => \/ layerInit.townsLayer = "fetched"
            \/ Unusable(layerInit.townsData)

\* C25, build L3: the two slots are filled independently
C25_IsolatedInL3 ==
  layersLoaded /\ layerBuild = "L3" =>
    /\ layerInit.states = "ok" =>
         \/ layerInit.statesLayer = "fetched"
         \/ Unusable(layerInit.statesData)
    /\ layerInit.towns = "ok" =>
         \/ layerInit.townsLayer = "fetched"
         \/ Unusable(layerInit.townsData)
    /\ layerInit.towns \in {"notOk", "rejected"} =>
         layerInit.townsLayer = "empty"

----------------------------------------------------------------------------
(* Claims on the order of the fetches *)

\* C26: the two fetches of an analysis are launched together: while the
\* region-metrics request of a region analysis is in flight its geometry
\* lookup has been issued
C26_RegionConcurrent ==
  \A j \in 1..Len(regs) :
    regs[j].res = "pending" => regs[j].geoRes # "unsent"

\* C26, the point analysis: while the pixel request is in flight the
\* region-metrics request has been issued
C26_PointConcurrent ==
  \A i \in 1..Len(reqs) :
    reqs[i].pixel = "pending" => reqs[i].state # "unsent"

\* C26, what the builds with orchestrateSpatialAnalysis do: both requests of
\* a point analysis are out from the start
C26_OrchestratorConcurrent ==
  mapBuild # "P1" =>
    \A i \in 1..Len(reqs) : reqs[i].state # "unsent"

\* C26, what fetchAndZoomState does: the geometry lookup is issued only after
\* the region-metrics response has arrived
C26_RegionSequential ==
  \A j \in 1..Len(regs) :
    regs[j].geoRes # "unsent" => regs[j].res \in {"ok", "notOk"}

----------------------------------------------------------------------------
(* Claims on the wizard's step graph *)

\* the answers the transition table has a row for: the values handleAnswer
\* compares the selected value with, question by question; procWiz names the
\* same values and leaves the last of each question to its else branch
tableAnswers(s, st) ==
  IF s = "water-pumping" THEN
    IF st = 1 THEN {"surface", "underground"}
    ELSE IF st = 2 THEN {"less-30", "31-40", "41-50", "51-60", "61-70"}
    ELSE IF st = 3 THEN {"1", "2", "3"}
    ELSE IF st = 7 THEN {"4", "12"}
    ELSE {}
  ELSE IF s = "refrigeration" THEN
    IF st = 1 THEN {"less-55", "51-130", "131-240"} ELSE {}
  ELSE IF s = "drying" THEN
    IF st = 1 THEN {"passive", "active"} ELSE {}
  ELSE IF s = "cooking" THEN
    IF st = 1 THEN {"single", "double"}
    ELSE IF st = 2 THEN {"yes", "no"}
    ELSE {}
  ELSE {}

\* the answer buttons / options of the question on show
offered ==
  IF dashBuild = "Q"
    THEN IF qForm = "question" THEN showQuestion(currentSection, currentQNum)
         ELSE {}
    ELSE IF wizView = "question"
           THEN wizOptions(dashBuild, wizardState.section, wizardState.step)
           ELSE {}

\* the (section, step) of the question on show
atQuestion ==
  IF dashBuild = "Q" THEN <<currentSection, currentQNum>>
  ELSE <<wizardState.section, wizardState.step>>

\* C27: every answer value the question on show offers is an answer the
\* transition table has a row for at this section and step
C27_OfferedAnswersDefined ==
  offered \subseteq tableAnswers(atQuestion[1], atQuestion[2])

\* C27, what holds: the questionnaire of build Q offers the table's answers
\* at every question, and the wizard builds do at every step but 3 and 7
C27_DefinedOutsideDemand ==
  (dashBuild = "Q" \/ atQuestion[2] \notin {3, 7})
    => offered \subseteq tableAnswers(atQuestion[1], atQuestion[2])

----------------------------------------------------------------------------
(* Claims on the advisory bands *)

\* the advisory DecisionAgent.analyze of this build gives the rendered record
\* with the solar score v in place of its own
AdvisoryAt(v) ==
  analyze(dashBuild, [lastData[1] EXCEPT !.solar_mean_score = Some(v)])

\* the scores classifyScore puts in the band of the rendered solar score
SameBand ==
  {v \in Scores : classifyScore(Some(v)) = classifyScore(Some(SolarScore))}

\* the rendered record has a solar score and its slope does not fire the gate
Ungated ==
  /\ dashBuild \in {"A", "B"} /\ Rendered
  /\ lastData[1].solar_mean_score # Absent
  /\ SlopeValue <= slopeLimit * Scale

\* C28: with the slope gate not firing, every score of the same classifyScore
\* band as the rendered one gets the advisory that was rendered
C28_AdvisoryByCategory ==
  Ungated => \A v \in SameBand : AdvisoryAt(v) = agentInsight

\* C28, what holds: in build B the advisory changes only at the band
\* boundaries 4, 6 and 8
C28_AdvisoryByCategoryB ==
  Ungated /\ dashBuild = "B" => \A v \in SameBand : AdvisoryAt(v) = agentInsight

\* the longest run of answers the section's step graph allows
MaxAnswers(section) == IF section = "water-pumping" THEN 3 ELSE 2

\* build Q: the questions of this session that hold a selected answer
QAnswered ==
  Cardinality({k \in {"q1", "q2", "q3", "q7"} :
                 answers[k] \notin {"undefined", ""}})

----------------------------------------------------------------------------
(* Claims on the focus mode *)

\* C30: once the layers have loaded, the boundary layer is off the map in
\* site mode and on the map in state mode
C30_FocusShutoff ==
  (mapBuild = "P2" /\ layersLoaded) => (statesOnMap <=> mode = "state")

\* C30, what switchMode does by itself: right after a mode switch with the
\* layers loaded the boundary layer is where the mode wants it
C30_AfterSwitch ==
  [][(mapBuild = "P2" /\ layersLoaded /\ mode' # mode)
       => (statesOnMap' <=> mode' = "state")]_vars

----------------------------------------------------------------------------
(* Claims on the terminal recommendation *)

\* C31: whenever a terminal result is on show, the recommendation is not
\* empty, whatever was submitted, the unselected empty option included
C31_RecommendationNotEmpty ==
  /\ (dashBuild = "Q" /\ qResults # <<>>) => qResults[1] # ""
  /\ (dashBuild \in {"A", "B"} /\ wizView = "done") => wizResults.model # ""

\* C31, what holds: the wizard builds always end with a model identifier
C31_WizardNotEmpty ==
  (dashBuild \in {"A", "B"} /\ wizView = "done")
    => wizResults.model # "" /\ ~wizResults.hidden

\* the step is a call of selWiz or resetWiz
StartsOrRestarts ==
  /\ lastOp' # lastOp
  /\ lastOp'.op \in {"selWiz", "resetWiz"}

\* C32: starting or restarting the wizard leaves wizardState.loc, the region
\* name of the record delivered last, as it was
C32_StartKeepsLocation ==
  [][(lastData # <<>> /\ StartsOrRestarts)
       => wizardState'.loc = wizardState.loc]_vars

\* C32, what holds: updateDashboard stores the region name of its record, and
\* the surface-water note quotes wizardState.loc as it is when the answer is
\* given
C32_NoteQuotesLoc ==
  [][/\ lastData' # lastData => wizardState'.loc = lastData'[1].state_name
     /\ (lastOp' # lastOp /\ lastOp'.op = "procWiz" /\ lastOp'.val = "surface"
           /\ lastOp'.section = "water-pumping" /\ lastOp'.step = 1)
          => wizResults'.context.loc = wizardState.loc]_vars

\* the session selWiz(section) starts
startWizard(section) == WizardState(section, 1, NoAnswers, "undefined")

\* the recommendations the sessions that go on from ws can end with, when the
\* answers are chosen from the buttons renderWizardStep shows (offeredOnly)
\* or from the rows of the table
RECURSIVE Outcomes(_, _, _)
Outcomes(build, ws, offeredOnly) ==
  LET vals == IF offeredOnly THEN wizOptions(build, ws.section, ws.step)
              ELSE tableAnswers(ws.section, ws.step)
      After(v) ==
        LET o == procWiz(build, ws, v)
        IN  IF o.fin THEN {o.model}
            ELSE Outcomes(build,
                          [ws EXCEPT !.data[ws.step] = v, !.step = o.step],
                          offeredOnly)
  IN  UNION {After(v) : v \in vals}

\* C33: every recommendation a row of the table ends with can be reached
\* from the menu through the answers the wizard offers
C33_RowsReachable ==
  dashBuild \in {"A", "B"} =>
    \A s \in Sections :
      Outcomes(dashBuild, startWizard(s), FALSE)
        \subseteq Outcomes(dashBuild, startWizard(s), TRUE)

\* C33, what holds: outside water-pumping every row's recommendation can be
\* reached; of the nine water pumps of the table build A reaches six and
\* build B eight, the surface-water pump among them
C33_ReachableRows ==
  dashBuild \in {"A", "B"} =>
    /\ \A s \in Sections \ {"water-pumping"} :
         Outcomes(dashBuild, startWizard(s), FALSE)
           = Outcomes(dashBuild, startWizard(s), TRUE)
    /\ procWiz(dashBuild, startWizard("water-pumping"), "surface").model
         \in Outcomes(dashBuild, startWizard("water-pumping"), TRUE)
    /\ Cardinality(Outcomes(dashBuild, startWizard("water-pumping"), FALSE)) = 9
    /\ Cardinality(Outcomes(dashBuild, startWizard("water-pumping"), TRUE))
         = IF dashBuild = "A" THEN 6 ELSE 8

----------------------------------------------------------------------------
(* Claims on overlapping analyses *)

\* an activation of orchestrateSpatialAnalysis has not ended yet
InFlight(i) == reqs[i].pc # "done"

\* C34: #loading is shown whenever a point analysis is in flight; the end of
\* one analysis does not hide it while another one is pending
C34_LoadingWhileInFlight ==
  (mapBuild # "P1" /\ \E i \in 1..Len(reqs) : InFlight(i)) => loadingShown

\* C34, what holds: #loading is shown from the start of an analysis on, and
\* hidden once no analysis is in flight
C34_LoadingSingle ==
  /\ [][issued' # issued /\ mapBuild # "P1" => loadingShown']_vars
  /\ [](mapBuild # "P1" /\ issued > 0
          /\ (\A i \in 1..Len(reqs) : ~InFlight(i)) => ~loadingShown)

\* C35: the popup bound to a marker shows the result of the request the
\* marker was placed for, never that of another request
C35_PopupOfOwnRequest ==
  popup.req # 0 => popup.req = popup.marker

\* C35, what holds: the popup is bound to the marker that is active when the
\* result arrives, and shows the request that just ended
C35_PopupOnActiveMarker ==
  [][(popup' # popup /\ popup'.req # 0 /\ mapBuild # "P1")
       => /\ popup'.marker = activeMarker
          /\ popup'.req <= Len(reqs) /\ Ends(popup'.req)]_vars

----------------------------------------------------------------------------
(* SpecMixed: region selections and map clicks on one page.  The fetches of *)
(* the point analyses stay unanswered; their continuations touch neither    *)
(* the highlight nor the region report.                                     *)

NextMixed ==
  \/ NextRegion
  \/ orchestrateSpatialAnalysis(ClickPoint, "manual", Absent)
  \/ mapClick(ClickPoint)

SpecMixed == InitRegion /\ [][NextMixed]_vars

\* the analysis started last is a point analysis: switchMode('site') was the
\* last mode switch
PointStartedLast == issued > 0 /\ mode = "site"

\* the record is one fetchAndZoomState hands to updateDashboard
IsRegionRecord(d) == "reg" \in DOMAIN d

\* C36: once a point analysis has been started no boundary is highlighted
\* and no region record reaches the dashboard until a region is selected
\* again, also when an earlier region selection resolves afterwards
C36_HighlightStaysCleared ==
  /\ [](PointStartedLast => highlightLayer = NoFeature)
  /\ [][(PointStartedLast /\ lastData' # lastData)
          => ~IsRegionRecord(lastData'[1])]_vars

\* C36, what holds: the start of a point analysis removes the highlight
C36_StartClears ==
  [][issued' # issued => highlightLayer' = NoFeature]_vars

\* C36, the highlight alone: no boundary is highlighted while the analysis
\* started last is a point analysis
C36_NoHighlightAfterPoint == PointStartedLast => highlightLayer = NoFeature

----------------------------------------------------------------------------
(* Claims on the advisory of region records.  A region record is the body   *)
(* of /state_metrics with state_name added; its slope is the field          *)
(* mean_slope, the one the state report of the dashboard reads, and it has  *)
(* no field slope.                                                          *)

RegionMetrics(solar, wind, meanSlope, name) ==
  [solar_mean_score |-> solar, wind_mean_score |-> wind, slope |-> Absent,
   mean_slope |-> meanSlope, state_name |-> name, req |-> 0, reg |-> 1]

RegionInputs ==
  { RegionMetrics(s, Some(3 * Scale), ms, "Banadir") :
      s \in {Absent} \cup {Some(v * Scale) : v \in {3, 5, 7, 9}},
      ms \in {Absent} \cup {Some(v) : v \in Slopes} }

InitRegionSlope ==
  /\ InitPage /\ mapBuild = "M2" /\ gps = NoGps /\ pageFault = "none"
  /\ InitLayersPending
  /\ arg \in {<<d>> : d \in RegionInputs}

\* window.updateDashboard(data, 'state') is called with the region record
RenderRegion ==
  /\ lastData = <<>>
  /\ updateDashboardState(arg[1])
  /\ UNCHANGED <<layerVars, dashBuild, pageFault, arg, wizView, wizResults, qVars, histVars,
                 reqs, issued, activeMarker, popup, statusText,
                 mapBuild, regs, highlightLayer, mapView, gps>>

NextRegionSlope == RenderRegion

SpecRegionSlope == InitRegionSlope /\ [][NextRegionSlope]_vars

MeanSlope == OrZero(lastData[1].mean_slope)

\* C37: a region record whose mean slope is above the slope limit gets the
\* unsuitable-terrain advisory, whatever its scores
C37_RegionSlopeGate ==
  (Rendered /\ dashBuild # "Q" /\ MeanSlope > slopeLimit * Scale)
    => agentInsight.kind = "Constraint"

\* C37, what holds: the advisory of a region record is never the terrain
\* warning; it follows the solar score alone
C37_RegionNeverGated ==
  (Rendered /\ dashBuild # "Q")
    => /\ agentInsight.kind # "Constraint"
       /\ agentInsight = analyze(dashBuild,
                                 Record(lastData[1].solar_mean_score, Absent,
                                        Absent, lastData[1].state_name, 0))

----------------------------------------------------------------------------
(* Claims on the suggestion of the site report *)

\* C38: the suggestion never proposes water pumping for a record that got
\* the terrain warning, and never proposes low-power use only for a record
\* whose advisory recommends solar water pumping
C38_SuggestionAgrees ==
  (Rendered /\ dashBuild = "B")
    => /\ ~(agentInsight.kind = "Constraint"
            /\ wizardSuggestion = "Water Pumping")
       /\ ~(agentInsight.kind = "High (6-8)"
            /\ wizardSuggestion = "low-power")

\* C38, first half alone
C38_NoPumpsOnSlope ==
  (Rendered /\ dashBuild = "B" /\ agentInsight.kind = "Constraint")
    => wizardSuggestion # "Water Pumping"

\* C38, what holds: the suggestion follows the solar score alone, water
\* pumping above 7 and low-power use otherwise
C38_SuggestionByScore ==
  (Rendered /\ dashBuild = "B")
    => (wizardSuggestion = "Water Pumping"
          <=> lastData[1].solar_mean_score # Absent /\ SolarScore > 7 * Scale)

----------------------------------------------------------------------------
(* Claims on what the advisory depends on *)

\* the record with its wind score replaced
WithWind(data, w) == [data EXCEPT !.wind_mean_score = w]

WindValues == {Absent} \cup {Some(v) : v \in Scores}

\* C39: the advisory does not depend on the wind score: the record rendered
\* and every record that differs from it in the wind score alone get the
\* same advisory
C39_AdvisoryIgnoresWind ==
  (Rendered /\ dashBuild # "Q")
    => \A w \in WindValues :
         analyze(dashBuild, WithWind(lastData[1], w)) = agentInsight

\* a site with the best wind score and a poor solar score is advised as a
\* low resource
C39_Witness ==
  /\ Rendered /\ dashBuild = "B"
  /\ lastData[1].wind_mean_score = Some(10 * Scale)
  /\ SolarScore = 3 * Scale
  /\ agentInsight.kind = "Low Potential (0-4)"

----------------------------------------------------------------------------
(* SpecGpsClick: the location is requested, and the user clicks the map     *)
(* only while the timer of a simulation is pending.                         *)

NextGpsClick ==
  \/ gps.timers > 0 /\ orchestrateSpatialAnalysis(ClickAt, "manual", Absent)
  \/ triggerGPSOrchestrator
  \/ \E c \in GpsFixes : GpsFix(c)
  \/ GpsError
  \/ SimTimer
  \/ \E i \in 1..MaxReq, which \in {"pixel", "state"}, o \in GpsOutcomes :
       FetchSettles(i, which, o)
  \/ \E i \in 1..MaxReq : AwaitAll(i)
  \/ \E i \in 1..MaxReq : PixelJson(i, GpsPixelBody)
  \/ \E i \in 1..MaxReq : StateJson(i, <<"Banadir">>)

SpecGpsClick == InitGps /\ [][NextGpsClick]_vars

\* activation i is the user's click
UserRequest(i) == reqs[i].at = ClickAt

\* activation j is the first simulation started after activation i: the one
\* of the timer that was pending when i started
SimulationAfter(i, j) ==
  /\ i < j /\ reqs[j].at = Simulation
  /\ \A k \in (i + 1)..(j - 1) : reqs[k].at # Simulation

\* C40: the simulation a location request scheduled does not supersede a
\* request the user made while its timer was pending: when the user's
\* analysis delivered its record, the dashboard does not end up with the
\* simulation's
C40_SimulationYields ==
  \A i, j \in 1..Len(reqs) :
    (UserRequest(i) /\ reqs[i].result = "handed" /\ SimulationAfter(i, j))
      => ~SimulatedShown(j)

\* C40, what holds: the timer starts the simulation whatever happened since
\* it was set, and the new analysis takes the marker
C40_TimerAlwaysStarts ==
  [][gps.timers' < gps.timers
       => /\ issued' = issued + 1
          /\ reqs'[issued'].at = Simulation
          /\ activeMarker' = issued']_vars

====
